---- MODULE Spec2Model ----
(***************************************************************************)
(* yt-dl-api-go: the admission-and-execution pipeline.                     *)
(*                                                                         *)
(* HTTP submit handler (Handlers.DownloadHandler), the job repository, the *)
(* dispatcher (bounded channel + worker pool), the job processor           *)
(* (Handlers.ProcessJob) with the extractor driver (Downloader.Download),  *)
(* and main's shutdown sequence.                                           *)
(*                                                                         *)
(* Granularity: one action per operation on shared state (channel send or  *)
(* receive, atomic flag, one repository statement, one object-store call). *)
(* Assignments to a job object that only the executing goroutine holds are *)
(* folded into the action of the shared operation that follows them.       *)
(*                                                                         *)
(* Repository statements are single transactions.  A statement fails when  *)
(* the context it is given is already cancelled (database/sql returns      *)
(* ctx.Err() before executing) or when it affects no row; the worker's     *)
(* context is the process context of main, a request's context stays live  *)
(* for the duration of its handler.                                        *)
(***************************************************************************)
EXTENDS Integers, Sequences, FiniteSets, TLC

\* ----------------------------------------------------------------- bounds
MaxJobs == 2        \* submit requests per run of Spec
MaxSubmits == 3     \* submit requests per run of SpecAdmit
MaxWorkers == 2     \* MAX_WORKERS is drawn from 0..MaxWorkers
MaxQueue == 2       \* MAX_QUEUE_SIZE is drawn from 1..MaxQueue
MaxLines == 2       \* progress lines the extractor prints per run
MaxStops == 2       \* calls of Dispatcher.Stop besides the one main defers
MaxRequests == 3    \* requests per run of SpecGate
MaxArrivals == 12   \* requests the client of SpecLimit and of SpecGC sends
MaxClients == 2     \* client IPs of SpecGate
MaxDials == 2       \* distinct outbound connections per run of SpecDial
MaxFiles == 2       \* files on disk in SpecCleanup
MaxEntries == 3     \* entries of the output directory in SpecSweep
MaxSweeps == 2      \* runs of a sweep in SpecSweep
MaxObjects == 3     \* objects in the bucket
MaxKeys == 2        \* keys in one answer of ListObjectsV2 (1000), scaled
MaxStderr == 202    \* characters the extractor writes to stderr
MaxStdout == 3      \* lines the stdout scanner reads in one run

\* ------------------------------------------------------ program constants
DefaultQueueSize == 10
StatusAccepted == 202
StatusBadRequest == 400
StatusInternalServerError == 500
StatusServiceUnavailable == 503
StatusOK == 200
StatusNotFound == 404
StatusForbidden == 403
StatusTooManyRequests == 429
StatusGatewayTimeout == 504
ErrorTextLimit == 200
DefaultRequestsPerMinute == 5
DefaultBurst == 2
SecondsPerMinute == 60
RetryAfterSeconds == 60
CleanupInterval == 600

Max(a, b) == IF a > b THEN a ELSE b

\* The requests of a run; request r that is admitted creates job r.
JobIds == 1..Max(Max(MaxJobs, MaxSubmits), MaxRequests)
Workers == 1..MaxWorkers

\* Client IPs: request r of the pipeline specifications comes from IP r.
Addrs == JobIds

\* The percentages "[download] NN.N%" lines carry, in tenths of a percent.
ProgressLines == {459, 1204}

JobStatusPending == "pending"
JobStatusProcessing == "processing"
JobStatusDone == "done"
JobStatusError == "error"

VARIABLES
    numWorkers,   \* Dispatcher.numWorkers
    queueCap,     \* cap(Dispatcher.jobChan)
    r2Configured, \* Handlers.r2Client != nil
    wiring,       \* which main built the chain: "router" (chi) or "simple"
    turnstileSkip,\* cfg.TurnstileSkip
    secretKey,    \* cfg.TurnstileSecretKey
    rateRPM,      \* RateLimitConfig.RequestsPerMinute
    rateBurst,    \* RateLimitConfig.Burst
    now,          \* time.Now(), in seconds
    visitors,     \* RateLimiter.visitors, per IP
    clients,      \* the clients map of the simple wiring's RateLimit, per IP
    req,          \* per request: route, client IP, challenge token, job asked
    verdict,      \* per request: how its siteverify call ended ("": no call)
    limiterLog,   \* history: what RateLimitMiddleware answered, in order
    respCode,     \* per request: the "code" of the error body written
    retryAfter,   \* per request: the Retry-After header written (0: none)
    jobChan,      \* Dispatcher.jobChan: the buffered jobs, oldest first
    jobChanClosed,\* close(d.jobChan) has run
    stopped,      \* Dispatcher.stopped
    stopChClosed, \* close(d.stopCh) has run
    ctxDone,      \* the process context of main is cancelled
    mpc,          \* main: position in the shutdown sequence
    hpc,          \* per request: position in DownloadHandler
    resp,         \* per request: HTTP status written (0: none yet)
    enqResult,    \* per request: what Dispatcher.Enqueue returned
    mem,          \* per job: the *domain.Job object
    repo,         \* per job: the row of table jobs
    wpc,          \* per worker: position in worker / ProcessJob / Download
    wjob,         \* per worker: the job it received (0: none)
    nlines,       \* per worker: progress lines read in the current run
    localFiles,   \* jobs whose artifact is on local disk
    spc,          \* per call of Dispatcher.Stop: its position
    cleanerStopped, \* close(c.stopCh) of the file cleaner has run
    limiterStopped, \* close(rl.stopCh) of the rate limiter has run
    repoClosed,   \* Repository.Close has run
    sent,         \* history, per job: how often it was sent to jobChan
    handed,       \* history, per job: how often a worker received it
    dials,        \* the outbound connections dialled: client, IP, result
    disk,         \* the absolute paths of the files that exist
    cleaned,      \* what the last call of Cleanup did
    outputDir,    \* the entries of the output directory, in walk order
    lpc,          \* startLocalCleanup: its position
    sweeps,       \* history: the runs of cleanupLocal
    bucket,       \* the objects of the bucket, in key order
    r2pc,         \* startR2Cleanup: its position
    r2Log,        \* history: what each run of DeleteOlderThan returned
    failed,       \* the last failed extractor run: its inputs, what is recorded
    scan,         \* Download: the lines read, downloadedFile, what it returns
    oldFiles      \* the jobs whose artifact has a ModTime before now - LocalMaxAge

vars == <<numWorkers, queueCap, r2Configured, wiring, turnstileSkip, secretKey,
          rateRPM, rateBurst, now, visitors, clients, req,
          verdict, limiterLog, respCode, retryAfter, jobChan, jobChanClosed, stopped,
          stopChClosed, ctxDone, mpc, hpc, resp, enqResult, mem, repo, wpc,
          wjob, nlines, localFiles, spc, cleanerStopped, limiterStopped,
          repoClosed, sent, handed, dials, disk, cleaned,
          outputDir, lpc, sweeps, bucket, r2pc, r2Log, failed, scan, oldFiles>>

r2Vars == <<bucket, r2pc, r2Log>>
extVars == <<dials, disk, cleaned, outputDir, lpc, sweeps, r2Vars, failed, scan, oldFiles>>

cfgVars == <<numWorkers, queueCap, r2Configured, wiring, turnstileSkip,
            secretKey, rateRPM, rateBurst>>
dispVars == <<jobChan, jobChanClosed, stopped, stopChClosed>>
handlerVars == <<hpc, resp, enqResult, respCode, retryAfter, req, verdict>>
limiterVars == <<now, visitors, clients, limiterLog>>
workerVars == <<wpc, wjob, nlines>>
stopVars == <<spc, cleanerStopped, limiterStopped, repoClosed>>
histVars == <<sent, handed>>

\* The calls of Dispatcher.Stop: 0 is the call main defers.
StopCallers == 0..MaxStops

Min(a, b) == IF a < b THEN a ELSE b

\* ------------------------------------------------------------ domain.Job
\* No job object / no row.
NoJob == [status |-> "none", url |-> <<>>, title |-> "", fileKey |-> "",
          filePath |-> "", downloadURL |-> "", progress |-> 0, error |-> "",
          createdAt |-> FALSE, completedAt |-> FALSE]

NewJob(url) == [status |-> JobStatusPending, url |-> url, title |-> "",
                fileKey |-> "", filePath |-> "", downloadURL |-> "",
                progress |-> 0, error |-> "", createdAt |-> TRUE,
                completedAt |-> FALSE]

\* Mutant: the status left as it is.
MarkProcessingNoop(j) == j

MarkProcessing(j) == [j EXCEPT !.status = JobStatusProcessing]

\* Mutant: Done without the completion time.
MarkDoneNoCompletedAt(j, downloadURL) ==
    [j EXCEPT !.status = JobStatusDone, !.downloadURL = downloadURL,
              !.progress = 100]

MarkDone(j, downloadURL) ==
    [j EXCEPT !.status = JobStatusDone, !.downloadURL = downloadURL,
              !.progress = 100, !.completedAt = TRUE]

\* Mutant: Error without the completion time.
MarkErrorNoCompletedAt(j, err) ==
    [j EXCEPT !.status = JobStatusError, !.error = err]

\* Mutant: the error text and completion time without the status.
MarkErrorKeepsStatus(j, err) ==
    [j EXCEPT !.error = err, !.completedAt = TRUE]

MarkError(j, err) ==
    [j EXCEPT !.status = JobStatusError, !.error = err, !.completedAt = TRUE]

UpdateProgress(j, progress) ==
    [j EXCEPT !.progress = IF progress < 0 THEN 0
                           ELSE IF progress > 100 THEN 100 ELSE progress]

\* ------------------------------------------------------ sqlite.Repository
\* Whether a statement given a context in this state is executed.
CtxLive(isWorker) == IF isWorker THEN ~ctxDone ELSE TRUE

\* INSERT INTO jobs: every column of the job.
RepoCreate(rows, id, j) == [rows EXCEPT ![id] = j]

\* UPDATE jobs SET title, status, file_key, file_path, download_url,
\* progress, error, completed_at WHERE id: url and created_at stay.
RepoUpdate(rows, id, j) ==
    IF rows[id].status = "none" THEN rows
    ELSE [rows EXCEPT ![id] = [j EXCEPT !.url = rows[id].url,
                                        !.createdAt = rows[id].createdAt]]

\* Mutant: the row replaced by one of the id and the progress.
RepoUpdateProgressReplaces(rows, id, progress) ==
    IF rows[id].status = "none" THEN rows
    ELSE [rows EXCEPT ![id] = [NoJob EXCEPT !.status = rows[id].status,
                                            !.progress = progress]]

\* UPDATE jobs SET progress = ? WHERE id: the value as passed.
RepoUpdateProgress(rows, id, progress) ==
    IF rows[id].status = "none" THEN rows
    ELSE [rows EXCEPT ![id].progress = progress]

\* Repository.Update / UpdateProgress as called with a context.
Update(isWorker, id, j) ==
    IF CtxLive(isWorker) THEN RepoUpdate(repo, id, j) ELSE repo

\* GET /api/status/{job_id}: GetByID and ToStatusResponse.
StatusHandler(id) ==
    IF repo[id].status = "none"
    THEN [status |-> "", downloadURL |-> "", progress |-> 0, error |-> "",
          completedAt |-> FALSE, code |-> StatusNotFound]
    ELSE [status |-> repo[id].status, downloadURL |-> repo[id].downloadURL,
          progress |-> repo[id].progress, error |-> repo[id].error,
          completedAt |-> repo[id].completedAt, code |-> StatusOK]

\* ------------------------------------------------------------ Dispatcher
NewDispatcherWorkers(n) == IF n < 1 THEN 1 ELSE n
NewDispatcherQueue(q) == IF q < 1 THEN DefaultQueueSize ELSE q

\* Mutant: full only beyond the capacity.
IsFullOffByOne == Len(jobChan) > queueCap

IsFull == Len(jobChan) >= queueCap
QueueSize == Len(jobChan)

\* The jobs in the channel buffer.
Queued == {jobChan[i] : i \in 1..Len(jobChan)}

\* The non-blocking send of Enqueue: the select's send case is ready iff the
\* buffer has room and is chosen then; otherwise the default case runs.
\* A send on a closed channel panics.
EnqueueSelect(id) ==
    IF jobChanClosed THEN [res |-> "panic", chan |-> jobChan]
    ELSE IF Len(jobChan) < queueCap
         THEN [res |-> "ok", chan |-> Append(jobChan, id)]
         ELSE [res |-> "full", chan |-> jobChan]

\* ------------------------------------------------- rate.Limiter, per visitor
\* No entry in a map keyed by IP.
NoVisitor == [exists |-> FALSE, tokens |-> 0, last |-> 0, lastSeen |-> 0]

\* A limiter's tokens at time t, in 1/60 of a token: RequestsPerMinute / 60
\* tokens accrue per second, up to Burst.
Advance(v, t) ==
    Min(rateBurst * SecondsPerMinute, v.tokens + (t - v.last) * rateRPM)

\* getVisitor: the entry of ip, made with a full bucket when there is none;
\* its lastSeen set to now.
GetVisitor(vs, ip, t) ==
    IF vs[ip].exists THEN [vs[ip] EXCEPT !.lastSeen = t]
    ELSE [exists |-> TRUE, tokens |-> rateBurst * SecondsPerMinute,
          last |-> t, lastSeen |-> t]

\* Mutant: Allow takes no token.
AllowTakesNothing(vs, ip, t) ==
    [visitors |-> [vs EXCEPT ![ip] = GetVisitor(vs, ip, t)], ok |-> TRUE]

\* RateLimiter.Allow(ip): getVisitor, then limiter.Allow(): one token is
\* taken if there is one; if not, the limiter is left as it was.
Allow(vs, ip, t) ==
    LET v == GetVisitor(vs, ip, t)
        tok == Advance(v, t)
    IN IF tok >= SecondsPerMinute
       THEN [visitors |-> [vs EXCEPT ![ip] =
                             [v EXCEPT !.tokens = tok - SecondsPerMinute,
                                       !.last = t]],
             ok |-> TRUE]
       ELSE [visitors |-> [vs EXCEPT ![ip] = v], ok |-> FALSE]

\* RateLimit of the simple wiring: a counter per IP, reset when the IP was
\* last seen more than a minute ago; lastSeen is set on every request.
SimpleAllow(cs, ip, t) ==
    LET c == cs[ip]
        count == (IF ~c.exists \/ t - c.lastSeen > SecondsPerMinute
                  THEN 0 ELSE c.tokens) + 1
    IN [clients |-> [cs EXCEPT ![ip] = [exists |-> TRUE, tokens |-> count,
                                        last |-> 0, lastSeen |-> t]],
        ok |-> count <= rateRPM]

\* ------------------------------------------------------------------- URLs
\* A string is the sequence of its tokens: the delimiters of a URL one by
\* one, a run of letters or digits as one token.

\* strings.Index / strings.LastIndex (0: not found).
IndexOf(s, t) ==
    IF \E i \in 1..Len(s) : s[i] = t
    THEN CHOOSE i \in 1..Len(s) : s[i] = t /\ \A k \in 1..(i - 1) : s[k] # t
    ELSE 0
LastIndexOf(s, t) ==
    IF \E i \in 1..Len(s) : s[i] = t
    THEN CHOOSE i \in 1..Len(s) : s[i] = t /\ \A k \in (i + 1)..Len(s) : s[k] # t
    ELSE 0
Before(s, i) == SubSeq(s, 1, i - 1)
After(s, i) == SubSeq(s, i + 1, Len(s))
HasPrefix(s, p) == Len(s) >= Len(p) /\ SubSeq(s, 1, Len(p)) = p
HasSuffix(s, p) ==
    Len(s) >= Len(p) /\ SubSeq(s, Len(s) - Len(p) + 1, Len(s)) = p
TrimPrefix(s, p) == IF HasPrefix(s, p) THEN SubSeq(s, Len(p) + 1, Len(s)) ELSE s
Count(s, t) == Cardinality({i \in 1..Len(s) : s[i] = t})

\* strings.TrimSpace
TrimSpace(s) ==
    LET ix == {i \in 1..Len(s) : s[i] # " "}
    IN IF ix = {} THEN <<>>
       ELSE SubSeq(s, CHOOSE i \in ix : \A k \in ix : i <= k,
                      CHOOSE i \in ix : \A k \in ix : i >= k)

\* strings.ToLower
ToLower(s) == [i \in 1..Len(s) |-> IF s[i] = "YouTube" THEN "youtube" ELSE s[i]]

\* strings.Split(s, "."): the parts between the dots.
RECURSIVE Split(_)
Split(s) ==
    LET i == IndexOf(s, ".")
    IN IF i = 0 THEN <<s>> ELSE <<Before(s, i)>> \o Split(After(s, i))

\* The characters of the simple wiring's suspicious pattern.
Suspicious == {";", "&", "|", "$", "backtick", "backslash"}

\* The tokens that are no letters or digits.
Delimiters == {":", "/", "?", "#", "@", ".", " ", "%"} \cup Suspicious

\* url.Parse.  err: it returns an error.  user: u.User is not nil.
NoURL == [err |-> TRUE, scheme |-> <<>>, opaque |-> <<>>, user |-> FALSE,
          userinfo |-> <<>>, host |-> <<>>, path |-> <<>>,
          omitHost |-> FALSE, forceQuery |-> FALSE, rawQuery |-> <<>>,
          fragment |-> <<>>]

\* parseAuthority and parseHost: the userinfo up to the last @, no space
\* and no bad escape in the host.
parseAuthority(scheme, authority, rest, force, rawQuery, frag) ==
    LET sep == LastIndexOf(authority, "@")
        hostport == IF sep = 0 THEN authority ELSE After(authority, sep)
    IN IF IndexOf(hostport, " ") # 0 \/ IndexOf(hostport, "%") # 0
          \/ IndexOf(rest, "%") # 0
       THEN NoURL
       ELSE [err |-> FALSE, scheme |-> scheme, opaque |-> <<>>,
             user |-> sep # 0,
             userinfo |-> IF sep # 0 THEN Before(authority, sep) ELSE <<>>,
             host |-> hostport, path |-> rest, omitHost |-> FALSE,
             forceQuery |-> force, rawQuery |-> rawQuery, fragment |-> frag]

\* parse after the scheme and the query are cut off: an opaque rest, an
\* authority after two slashes, the path.
parseRest(scheme, rest, force, rawQuery, frag) ==
    LET rooted == HasPrefix(rest, <<"/">>)
        slash == IndexOf(rest, "/")
        segment == IF slash = 0 THEN rest ELSE Before(rest, slash)
        e == IndexOf(After(rest, 2), "/")
    IN IF ~rooted /\ scheme # <<>>
       THEN [NoURL EXCEPT !.err = FALSE, !.scheme = scheme, !.opaque = rest,
                          !.forceQuery = force, !.rawQuery = rawQuery,
                          !.fragment = frag]
       ELSE IF ~rooted /\ IndexOf(segment, ":") # 0 THEN NoURL
       ELSE IF /\ HasPrefix(rest, <<"/", "/">>)
               /\ scheme # <<>> \/ ~HasPrefix(rest, <<"/", "/", "/">>)
       THEN parseAuthority(scheme,
                IF e = 0 THEN After(rest, 2) ELSE SubSeq(rest, 3, e + 1),
                IF e = 0 THEN <<>> ELSE SubSeq(rest, e + 2, Len(rest)),
                force, rawQuery, frag)
       ELSE IF IndexOf(rest, "%") # 0 THEN NoURL
       ELSE [err |-> FALSE, scheme |-> scheme, opaque |-> <<>>,
             user |-> FALSE, userinfo |-> <<>>, host |-> <<>>, path |-> rest,
             omitHost |-> scheme # <<>> /\ rooted,
             forceQuery |-> force, rawQuery |-> rawQuery, fragment |-> frag]

\* parse after getScheme: a lone trailing ? sets ForceQuery, else the query
\* is cut at the first ?.
parseQuery(scheme, rest, frag) ==
    LET q == IndexOf(rest, "?")
        force == HasSuffix(rest, <<"?">>) /\ Count(rest, "?") = 1
    IN parseRest(scheme, IF q = 0 THEN rest ELSE Before(rest, q), force,
                 IF force \/ q = 0 THEN <<>> ELSE After(rest, q), frag)

\* getScheme: letters, digits and dots up to the first colon are a scheme,
\* a colon in front is an error, any other character ends the search.
getScheme(u, frag) ==
    LET c == IndexOf(u, ":")
        stop == CHOOSE i \in 1..(Len(u) + 1) :
                   /\ i = Len(u) + 1 \/ u[i] \in Delimiters \ {"."}
                   /\ \A k \in 1..(i - 1) : u[k] \notin Delimiters \ {"."}
    IN IF c = 1 THEN NoURL
       ELSE IF c > 1 /\ stop = c
       THEN parseQuery(ToLower(Before(u, c)), After(u, c), frag)
       ELSE parseQuery(<<>>, u, frag)

\* url.Parse: the fragment is cut off first.
ParseURL(raw) ==
    LET h == IndexOf(raw, "#")
    IN getScheme(IF h = 0 THEN raw ELSE Before(raw, h),
                 IF h = 0 THEN <<>> ELSE After(raw, h))

\* URL.Hostname: the host without the port.
Hostname(host) ==
    LET c == LastIndexOf(host, ":") IN IF c = 0 THEN host ELSE Before(host, c)

\* URL.String
String(u) ==
    (IF u.scheme # <<>> THEN u.scheme \o <<":">> ELSE <<>>)
    \o (IF u.opaque # <<>> THEN u.opaque
        ELSE (IF (u.scheme # <<>> \/ u.host # <<>> \/ u.user)
                 /\ ~(u.omitHost /\ u.host = <<>> /\ ~u.user)
              THEN (IF u.host # <<>> \/ u.path # <<>> \/ u.user
                    THEN <<"/", "/">> ELSE <<>>)
                   \o (IF u.user THEN u.userinfo \o <<"@">> ELSE <<>>)
                   \o u.host
              ELSE <<>>)
             \o (IF u.path # <<>> /\ u.path[1] # "/" /\ u.host # <<>>
                 THEN <<"/">> ELSE <<>>)
             \o u.path)
    \o (IF u.forceQuery \/ u.rawQuery # <<>> THEN <<"?">> \o u.rawQuery ELSE <<>>)
    \o (IF u.fragment # <<>> THEN <<"#">> \o u.fragment ELSE <<>>)

\* allowedDomains of the chi program: some of its entries.
allowedDomains ==
    {<<"youtube", ".", "com">>, <<"www", ".", "youtube", ".", "com">>,
     <<"youtu", ".", "be">>, <<"reddit", ".", "com">>,
     <<"v", ".", "redd", ".", "it">>}

isDomainAllowed(host) ==
    \/ host \in allowedDomains
    \/ LET parts == Split(host)
           n == Len(parts)
       IN /\ n > 2
          /\ parts[n - 1] \o <<".">> \o parts[n] \in allowedDomains

\* middleware.ValidateURL: the error it returns ("": nil).
ValidateURL(rawURL) ==
    LET raw == TrimSpace(rawURL)
        u == ParseURL(raw)
    IN IF raw = <<>> THEN "URL cannot be empty"
       ELSE IF u.err THEN "invalid URL format"
       ELSE IF u.scheme # <<"https">> /\ u.scheme # <<"http">>
       THEN "only HTTPS URLs are allowed"
       ELSE IF u.user THEN "URLs with user credentials are not allowed"
       ELSE IF Hostname(u.host) = <<>> THEN "invalid URL format"
       ELSE IF ~isDomainAllowed(ToLower(Hostname(u.host)))
       THEN "domain not in allowlist"
       ELSE ""

\* NormalizeURL
NormalizeURL(rawURL) ==
    LET raw == TrimSpace(rawURL)
        u == ParseURL(raw)
        normalized == String([u EXCEPT !.fragment = <<>>])
    IN IF u.err THEN raw
       ELSE IF /\ normalized # <<>>
               /\ normalized[Len(normalized)] = "/"
               /\ u.path # <<"/">>
       THEN Before(normalized, Len(normalized))
       ELSE normalized

\* allowedDomains of the simple wiring: the same entries.
simpleAllowedDomains == allowedDomains

\* Handler.validateURL of the simple wiring: the error it returns ("": nil).
validateURL(rawURL) ==
    LET u == ParseURL(rawURL)
        host == TrimPrefix(ToLower(u.host), <<"www", ".">>)
    IN IF rawURL = <<>> THEN "URL is required"
       ELSE IF u.err THEN "Invalid URL format"
       ELSE IF u.scheme # <<"http">> /\ u.scheme # <<"https">>
       THEN "URL must use http or https"
       ELSE IF ~\E domain \in simpleAllowedDomains :
                  LET d == TrimPrefix(domain, <<"www", ".">>)
                  IN host = d \/ HasSuffix(host, <<".">> \o d)
       THEN "Domain not supported"
       ELSE IF \E i \in 1..Len(rawURL) : rawURL[i] \in Suspicious
       THEN "URL contains invalid characters"
       ELSE ""

\* ------------------------------------------------------------ what is sent
\* A request: its route, client IP, challenge token, the job it asks for and
\* the url of its body once the handler has decoded it.
NoRequest == [ip |-> 0, route |-> "", token |-> "", job |-> 0, body |-> <<>>]

\* A body that is no JSON document.
NotJSON == <<"{">>

\* What a step of the chain decides for a request: the response it writes
\* (status 0: none, the request goes on at pc) and the body it has decoded.
Reply(status, code, retry) ==
    [status |-> status, code |-> code, body |-> <<>>, retry |-> retry,
     pc |-> "done"]
Continue(pc) ==
    [status |-> 0, code |-> "", body |-> <<>>, retry |-> 0, pc |-> pc]

\* DownloadHandler: decode the body, validate the URL.
DecodeAndValidate(body) ==
    IF body = NotJSON THEN Reply(StatusBadRequest, "INVALID_BODY", 0)
    ELSE [(IF ValidateURL(body) # ""
           THEN Reply(StatusBadRequest, "INVALID_URL", 0)
           ELSE Continue("check")) EXCEPT !.body = body]

\* RateLimitMiddleware on rl.Allow(ip) = false.
RateLimited == Reply(StatusTooManyRequests, "RATE_LIMIT", RetryAfterSeconds)

\* RateLimit of the simple wiring on count > requestsPerMinute.
SimpleRateLimited == Reply(StatusTooManyRequests, "RATE_LIMIT", 0)

\* TurnstileMiddleware up to the call of the verification endpoint; the
\* middleware is not installed when cfg.TurnstileSkip is set.
\* VerifyTurnstile returns an error before any call when no secret is set.
TurnstileEntry(token, body) ==
    IF turnstileSkip THEN DecodeAndValidate(body)
    ELSE IF token = ""
         THEN Reply(StatusBadRequest, "TURNSTILE_MISSING", 0)
    ELSE IF secretKey = ""
         THEN Reply(StatusInternalServerError, "TURNSTILE_ERROR", 0)
    ELSE Continue("verify")

\* TurnstileMiddleware after VerifyTurnstile returned.  outcome: the
\* provider's verdict, or the error of the call.
TurnstileVerdict(outcome, body) ==
    IF outcome \in {"transport error", "parse error"}
    THEN Reply(StatusInternalServerError, "TURNSTILE_ERROR", 0)
    ELSE IF outcome = "failure"
         THEN Reply(StatusForbidden, "TURNSTILE_INVALID", 0)
    ELSE DecodeAndValidate(body)

\* Turnstile of the simple wiring up to the call: it is not installed when
\* TurnstileSkip is set, and posts whatever secret is configured.
SimpleTurnstileEntry(token) ==
    IF turnstileSkip THEN Continue("limit")
    ELSE IF token = ""
         THEN Reply(StatusBadRequest, "TURNSTILE_MISSING", 0)
    ELSE Continue("verify")

\* Turnstile of the simple wiring after verifyTurnstile returned: an error
\* of the call makes it return false.
SimpleTurnstileVerdict(outcome) ==
    IF outcome = "success" THEN Continue("limit")
    ELSE Reply(StatusForbidden, "TURNSTILE_INVALID", 0)

VerifyOutcomes == {"success", "failure", "transport error", "parse error"}


\* ---------------------------------------------------------------- cleanup
\* A path is the sequence of its tokens: slashes, dots and runs of letters.
\* The working directory of the process and the default TEMP_DIR "./tmp".
Cwd == <<"/", "app">>
TempDir == <<".", "/", "tmp">>

\* The components of a path between its slashes.
RECURSIVE PathParts(_)
PathParts(p) ==
    LET i == IndexOf(p, "/")
    IN IF i = 0 THEN <<p>> ELSE <<Before(p, i)>> \o PathParts(After(p, i))

\* filepath.Clean of an absolute path, component by component: an empty
\* component and "." are dropped, ".." drops the component before it.
RECURSIVE CleanParts(_, _)
CleanParts(parts, kept) ==
    IF parts = <<>> THEN kept
    ELSE CleanParts(Tail(parts),
            IF Head(parts) \in {<<>>, <<".">>} THEN kept
            ELSE IF Head(parts) = <<".", ".">>
            THEN (IF kept = <<>> THEN kept ELSE Before(kept, Len(kept)))
            ELSE Append(kept, Head(parts)))

RECURSIVE JoinParts(_)
JoinParts(parts) ==
    IF parts = <<>> THEN <<>>
    ELSE <<"/">> \o Head(parts) \o JoinParts(Tail(parts))

\* filepath.Abs: a relative path is joined to the working directory, the
\* result is cleaned.
Abs(p) ==
    LET full == IF HasPrefix(p, <<"/">>) THEN p ELSE Cwd \o <<"/">> \o p
        parts == CleanParts(PathParts(full), <<>>)
    IN IF parts = <<>> THEN <<"/">> ELSE JoinParts(parts)

\* What a call of Cleanup did: the error it returned ("": nil) and whether
\* it removed the file.
NoCleanup == [error |-> "", path |-> <<>>, removed |-> FALSE]

\* os.Remove(filePath)
Remove(files, p) ==
    IF Abs(p) \in files
    THEN [error |-> "", path |-> p, removed |-> TRUE]
    ELSE [error |-> "no such file or directory", path |-> p, removed |-> FALSE]

\* Downloader.Cleanup
DownloaderCleanup(files, p) ==
    IF p = <<>> THEN NoCleanup
    ELSE IF ~HasPrefix(Abs(p), Abs(TempDir))
    THEN [error |-> "cannot delete file outside output directory",
          path |-> p, removed |-> FALSE]
    ELSE Remove(files, p)

\* R2.Cleanup of the simple wiring
StorageCleanup(files, p) == Remove(files, p)

\* The paths of files: in the output directory, below it, next to it in a
\* directory whose name begins with its name, elsewhere, each also written
\* with dots.
FilePaths ==
    {<<"tmp", "/", "a">>, <<".", "/", "tmp", "/", "a">>,
     <<"/", "app", "/", "tmp", "/", "a">>,
     <<"/", "app", "/", "tmp", "/", "sub", "/", "a">>,
     <<"tmp", "/", "/", "b">>,
     <<"tmp", "/", ".", ".", "/", "tmp", "/", "b">>,
     <<"tmp", "/", ".", ".", "/", "c">>,
     <<"/", "app", "/", "c">>,
     <<"tmp", "x", "/", "a">>,
     <<"/", "app", "/", "tmp", "x", "/", "a">>,
     <<"tmp", "/", ".", ".", "/", "tmp", "x", "/", "b">>,
     <<"/", "etc", "/", "passwd">>,
     <<"/", "tmp", "/", "a">>,
     <<".", ".", "/", "tmp", "/", "a">>,
     <<"/", "app", "/", "tmp", ".", "bak">>}

\* ------------------------------------------------------- retention sweeper
\* An entry of the output directory, in the order filepath.Walk visits
\* them: a regular file or a directory, whether its modification time is
\* before now minus LocalMaxAge, and what fails on it: nothing, its lstat or
\* the reading of its names ("walk"), its os.Remove ("remove").
Entries ==
    [kind : {"file"}, old : BOOLEAN, fault : {"none", "walk", "remove"}]
    \cup [kind : {"dir"}, old : BOOLEAN, fault : {"none", "walk"}]

\* cleanupLocal: the entries that are left.  The walk function returns the
\* error of the walk, which ends the walk; it skips directories and removes
\* the old files it can remove.
RECURSIVE Walk(_)
Walk(entries) ==
    IF entries = <<>> THEN <<>>
    ELSE LET e == Head(entries) IN
         IF e.fault = "walk" THEN entries
         ELSE IF e.kind = "file" /\ e.old /\ e.fault # "remove"
         THEN Walk(Tail(entries))
         ELSE <<e>> \o Walk(Tail(entries))

\* An object of the bucket: whether its LastModified is before now minus
\* R2MaxAge, and whether its DeleteObject fails.
Objects == [old : BOOLEAN, fault : {"none", "delete"}]

\* Client.ListOlderThan: one call of ListObjectsV2 without a continuation
\* token, which answers with the first MaxKeys keys in key order; of those
\* the positions of the old objects.
ListOlderThan(objects) ==
    {i \in 1..Min(Len(objects), MaxKeys) : objects[i].old}

\* The objects at the positions kept, in order.
RECURSIVE Keep(_, _, _)
Keep(objects, gone, i) ==
    IF i > Len(objects) THEN <<>>
    ELSE (IF i \in gone THEN <<>> ELSE <<objects[i]>>)
         \o Keep(objects, gone, i + 1)

\* Client.DeleteOlderThan: the objects left and what it returns.  A failed
\* Delete is logged and not counted.
DeleteOlderThan(objects, listed) ==
    IF ~listed
    THEN [error |-> "failed to list objects", count |-> 0, left |-> objects]
    ELSE LET gone == {i \in ListOlderThan(objects) :
                         objects[i].fault = "none"}
         IN [error |-> "", count |-> Cardinality(gone),
             left |-> Keep(objects, gone, 1)]

\* No extractor run has failed.
NoFailure == [error |-> "", ctxErr |-> "none", stderr |-> {}, text |-> <<>>]

\* Download before the scanner has read a line.
NoScan == [err |-> "", path |-> "", stdout |-> <<>>, downloadedFile |-> "",
           state |-> "scan",
           info |-> [title |-> "", present |-> FALSE, filename |-> ""],
           globbed |-> ""]

\* ------------------------------------------------------------------ start
\* The state main has built, the limiter holding the entries vs.
BootWith(vs) ==
    /\ \E n \in 0..MaxWorkers : numWorkers = NewDispatcherWorkers(n)
    /\ \E q \in 1..MaxQueue : queueCap = NewDispatcherQueue(q)
    /\ r2Configured \in BOOLEAN
    /\ now = 0
    /\ visitors = vs
    /\ clients = [ip \in Addrs |-> NoVisitor]
    /\ req = [r \in JobIds |-> NoRequest]
    /\ verdict = [r \in JobIds |-> ""]
    /\ limiterLog = <<>>
    /\ respCode = [r \in JobIds |-> ""]
    /\ retryAfter = [r \in JobIds |-> 0]
    /\ jobChan = <<>>
    /\ jobChanClosed = FALSE
    /\ stopped = FALSE
    /\ stopChClosed = FALSE
    /\ ctxDone = FALSE
    /\ mpc = "running"
    /\ hpc = [r \in JobIds |-> "none"]
    /\ resp = [r \in JobIds |-> 0]
    /\ enqResult = [r \in JobIds |-> "none"]
    /\ mem = [r \in JobIds |-> NoJob]
    /\ repo = [r \in JobIds |-> NoJob]
    /\ wpc = [w \in Workers |-> IF w <= numWorkers THEN "idle" ELSE "absent"]
    /\ wjob = [w \in Workers |-> 0]
    /\ nlines = [w \in Workers |-> 0]
    /\ localFiles = {}
    /\ spc = [c \in StopCallers |-> "idle"]
    /\ cleanerStopped = FALSE
    /\ limiterStopped = FALSE
    /\ repoClosed = FALSE
    /\ sent = [j \in JobIds |-> 0]
    /\ handed = [j \in JobIds |-> 0]
    /\ dials = {}
    /\ disk = {}
    /\ cleaned = NoCleanup
    /\ outputDir = <<>>
    /\ lpc = "start"
    /\ sweeps = 0
    /\ bucket = <<>>
    /\ r2pc = "start"
    /\ r2Log = <<>>
    /\ failed = NoFailure
    /\ scan = NoScan
    /\ oldFiles = {}

\* The state main has built when the server starts to listen.
Boot == BootWith([ip \in Addrs |-> NoVisitor])

\* The chi wiring with the challenge skipped and the default limiter.
Init ==
    /\ Boot
    /\ wiring = "router"
    /\ turnstileSkip = TRUE
    /\ secretKey = ""
    /\ rateRPM = DefaultRequestsPerMinute
    /\ rateBurst = DefaultBurst

Alive == mpc # "exited"

\* ------------------------------------------------ Handlers.DownloadHandler
\* What a request's step writes: its position, and the response if any.
Respond(r, o) ==
    /\ hpc' = [hpc EXCEPT ![r] = o.pc]
    /\ resp' = [resp EXCEPT ![r] = IF o.status = 0 THEN @ ELSE o.status]
    /\ respCode' = [respCode EXCEPT ![r] = IF o.status = 0 THEN @ ELSE o.code]
    /\ retryAfter' = [retryAfter EXCEPT ![r] = IF o.status = 0 THEN @ ELSE o.retry]

\* A request arrives (requests are numbered in the order of arrival) and
\* runs up to and including its first operation on shared state.
\* Chi wiring: RateLimitMiddleware for the whole /api subtree, then for the
\* download route TurnstileMiddleware up to its call and, when it makes
\* none, DownloadHandler's decoding and validation.
\* Simple wiring: Turnstile up to its call, RateLimit when it makes none.
Arrive(r, q, body) ==
    /\ Alive /\ mpc = "running"
    /\ hpc[r] = "none"
    /\ \A p \in JobIds : p < r => hpc[p] # "none"
    /\ IF wiring = "router"
       THEN LET a == Allow(visitors, q.ip, now)
                o == IF ~a.ok THEN RateLimited
                     ELSE IF q.route = "status" THEN Continue("status")
                     ELSE TurnstileEntry(q.token, body)
            IN
            /\ visitors' = a.visitors
            /\ limiterLog' = limiterLog
            /\ clients' = clients
            /\ req' = [req EXCEPT ![r] = [q EXCEPT !.body = o.body]]
            /\ Respond(r, o)
       ELSE LET t == SimpleTurnstileEntry(q.token)
                a == SimpleAllow(clients, q.ip, now)
            IN
            /\ visitors' = visitors
            /\ limiterLog' = limiterLog
            /\ req' = [req EXCEPT ![r] = q]
            /\ IF t.pc = "limit"
               THEN /\ clients' = a.clients
                    /\ Respond(r, IF a.ok THEN Continue("simple")
                                  ELSE SimpleRateLimited)
               ELSE /\ clients' = clients
                    /\ Respond(r, t)
    /\ UNCHANGED <<cfgVars, extVars, now, histVars, stopVars, dispVars, ctxDone, mpc,
                   enqResult, verdict, mem, repo, workerVars, localFiles>>

\* The call of the verification endpoint returns.  Chi wiring:
\* VerifyTurnstile, then the rest of TurnstileMiddleware and, on success,
\* DownloadHandler's decoding and validation.  Simple wiring:
\* verifyTurnstile and the rest of Turnstile.
VerifyTurnstile(r, outcome, body) ==
    /\ Alive
    /\ hpc[r] = "verify"
    /\ verdict' = [verdict EXCEPT ![r] = outcome]
    /\ LET o == IF wiring = "router" THEN TurnstileVerdict(outcome, body)
                ELSE SimpleTurnstileVerdict(outcome)
       IN /\ req' = [req EXCEPT ![r].body = o.body]
          /\ Respond(r, o)
    /\ UNCHANGED <<cfgVars, extVars, limiterVars, histVars, stopVars, dispVars,
                   ctxDone, mpc, enqResult, mem, repo, workerVars,
                   localFiles>>

\* Simple wiring: RateLimit, reached through Turnstile.
SimpleRateLimit(r) ==
    /\ Alive
    /\ hpc[r] = "limit"
    /\ LET a == SimpleAllow(clients, req[r].ip, now) IN
       /\ clients' = a.clients
       /\ Respond(r, IF a.ok THEN Continue("simple") ELSE SimpleRateLimited)
    /\ UNCHANGED <<cfgVars, extVars, now, visitors, limiterLog, histVars, stopVars,
                   dispVars, ctxDone, mpc, enqResult, req, verdict, mem,
                   repo, workerVars, localFiles>>

\* Simple wiring: Handler.Download: decode, validate, download, upload,
\* answer.  result: what the download and the upload did; a failed download
\* is one of handleDownloadError's default class.
SimpleDownload(r, body, result) ==
    /\ Alive
    /\ hpc[r] = "simple"
    /\ req' = [req EXCEPT ![r].body = IF body = NotJSON THEN <<>> ELSE body]
    /\ Respond(r, IF body = NotJSON
                  THEN Reply(StatusBadRequest, "INVALID_JSON", 0)
                  ELSE IF validateURL(body) # ""
                  THEN Reply(StatusBadRequest, "INVALID_URL", 0)
                  ELSE IF result = "download failed"
                  THEN Reply(StatusInternalServerError, "DOWNLOAD_ERROR", 0)
                  ELSE IF result = "upload failed"
                  THEN Reply(StatusInternalServerError, "UPLOAD_ERROR", 0)
                  ELSE Reply(StatusOK, "", 0))
    /\ UNCHANGED <<cfgVars, extVars, limiterVars, histVars, stopVars, dispVars,
                   ctxDone, mpc, enqResult, verdict, mem, repo,
                   workerVars, localFiles>>

\* Chi wiring: StatusHandler behind the limiter.
ServeStatus(r) ==
    /\ Alive
    /\ hpc[r] = "status"
    /\ Respond(r, Reply(StatusHandler(req[r].job).code, "", 0))
    /\ UNCHANGED <<cfgVars, extVars, limiterVars, histVars, stopVars, dispVars,
                   ctxDone, mpc, enqResult, req, verdict, mem, repo,
                   workerVars, localFiles>>

\* if h.dispatcher.IsFull() { 503 QUEUE_FULL }
CheckFull(r) ==
    /\ Alive
    /\ hpc[r] = "check"
    /\ IF IsFull
       THEN /\ hpc' = [hpc EXCEPT ![r] = "done"]
            /\ resp' = [resp EXCEPT ![r] = StatusServiceUnavailable]
            /\ respCode' = [respCode EXCEPT ![r] = "QUEUE_FULL"]
       ELSE /\ hpc' = [hpc EXCEPT ![r] = "create"]
            /\ resp' = resp
            /\ respCode' = respCode
    /\ UNCHANGED <<retryAfter, req, verdict,
                   cfgVars, extVars, limiterVars, histVars, stopVars, dispVars, ctxDone, mpc, enqResult, mem, repo,
                   workerVars, localFiles>>

\* job := domain.NewJob(...); h.repo.Create(r.Context(), job)
CreateJob(r) ==
    /\ Alive
    /\ hpc[r] = "create"
    /\ mem' = [mem EXCEPT ![r] = NewJob(NormalizeURL(req[r].body))]
    /\ IF CtxLive(FALSE)
       THEN /\ repo' = RepoCreate(repo, r, NewJob(NormalizeURL(req[r].body)))
            /\ hpc' = [hpc EXCEPT ![r] = "load"]
            /\ resp' = resp
            /\ respCode' = respCode
       ELSE /\ repo' = repo
            /\ hpc' = [hpc EXCEPT ![r] = "done"]
            /\ resp' = [resp EXCEPT ![r] = StatusInternalServerError]
            /\ respCode' = [respCode EXCEPT ![r] = "DB_ERROR"]
    /\ UNCHANGED <<retryAfter, req, verdict,
                   cfgVars, extVars, limiterVars, histVars, stopVars, dispVars, ctxDone, mpc, enqResult, workerVars,
                   localFiles>>

\* Enqueue: if d.stopped.Load() { return ErrDispatcherStopped }
EnqueueLoad(r) ==
    /\ Alive
    /\ hpc[r] = "load"
    /\ IF stopped
       THEN /\ enqResult' = [enqResult EXCEPT ![r] = "stopped"]
            /\ hpc' = [hpc EXCEPT ![r] = "failed"]
       ELSE /\ enqResult' = enqResult
            /\ hpc' = [hpc EXCEPT ![r] = "send"]
    /\ UNCHANGED <<respCode, retryAfter, req, verdict,
                   cfgVars, extVars, limiterVars, histVars, stopVars, dispVars, ctxDone, mpc, resp, mem, repo,
                   workerVars, localFiles>>

\* Mutant: the send without the default case, as a plain d.jobChan <- job.
EnqueueSendBlocking(r) ==
    /\ Alive
    /\ hpc[r] = "send"
    /\ Len(jobChan) < queueCap
    /\ jobChan' = Append(jobChan, r)
    /\ sent' = [sent EXCEPT ![r] = @ + 1]
    /\ enqResult' = [enqResult EXCEPT ![r] = "ok"]
    /\ hpc' = [hpc EXCEPT ![r] = "done"]
    /\ resp' = [resp EXCEPT ![r] = StatusAccepted]
    /\ UNCHANGED <<respCode, retryAfter, req, verdict,
                   cfgVars, extVars, limiterVars, handed, stopVars, jobChanClosed, stopped, stopChClosed, ctxDone,
                   mpc, mem, repo, workerVars, localFiles>>

\* Enqueue: select { case d.jobChan <- job: return nil; default: return
\* ErrQueueFull }.  On success the handler answers 202; a panic is turned
\* into a 500 by the Recoverer middleware.
EnqueueSend(r) ==
    /\ Alive
    /\ hpc[r] = "send"
    /\ LET s == EnqueueSelect(r) IN
       /\ jobChan' = s.chan
       /\ sent' = IF s.res = "ok" THEN [sent EXCEPT ![r] = @ + 1] ELSE sent
       /\ enqResult' = [enqResult EXCEPT ![r] = s.res]
       /\ hpc' = [hpc EXCEPT ![r] = IF s.res = "full" THEN "failed" ELSE "done"]
       /\ resp' = [resp EXCEPT ![r] =
                     IF s.res = "ok" THEN StatusAccepted
                     ELSE IF s.res = "panic" THEN StatusInternalServerError
                     ELSE resp[r]]
    /\ UNCHANGED <<respCode, retryAfter, req, verdict,
                   cfgVars, extVars, limiterVars, handed, stopVars, jobChanClosed, stopped, stopChClosed, ctxDone,
                   mpc, mem, repo, workerVars, localFiles>>

\* Mutant: the 503 without marking the job and writing it through.
EnqueueFailedNoUpdate(r) ==
    /\ Alive
    /\ hpc[r] = "failed"
    /\ hpc' = [hpc EXCEPT ![r] = "done"]
    /\ resp' = [resp EXCEPT ![r] = StatusServiceUnavailable]
    /\ respCode' = [respCode EXCEPT ![r] = "QUEUE_FULL"]
    /\ UNCHANGED <<retryAfter, req, verdict,
                   cfgVars, extVars, limiterVars, histVars, stopVars, dispVars, ctxDone, mpc, enqResult, mem, repo,
                   workerVars, localFiles>>

\* Enqueue returned an error: job.MarkError; h.repo.Update; 503 QUEUE_FULL.
EnqueueFailed(r) ==
    /\ Alive
    /\ hpc[r] = "failed"
    /\ LET j == MarkError(mem[r], "failed to enqueue job") IN
       /\ mem' = [mem EXCEPT ![r] = j]
       /\ repo' = Update(FALSE, r, j)
    /\ hpc' = [hpc EXCEPT ![r] = "done"]
    /\ resp' = [resp EXCEPT ![r] = StatusServiceUnavailable]
    /\ respCode' = [respCode EXCEPT ![r] = "QUEUE_FULL"]
    /\ UNCHANGED <<retryAfter, req, verdict,
                   cfgVars, extVars, limiterVars, histVars, stopVars, dispVars, ctxDone, mpc, enqResult, workerVars,
                   localFiles>>

\* ------------------------------------------------------ Dispatcher.worker
\* Mutant: the receive takes the newest buffered job.
WorkerReceiveNewest(w) ==
    /\ Alive
    /\ wpc[w] = "idle"
    /\ jobChan # <<>>
    /\ wjob' = [wjob EXCEPT ![w] = jobChan[Len(jobChan)]]
    /\ handed' = [handed EXCEPT ![jobChan[Len(jobChan)]] = @ + 1]
    /\ jobChan' = SubSeq(jobChan, 1, Len(jobChan) - 1)
    /\ wpc' = [wpc EXCEPT ![w] = "start"]
    /\ UNCHANGED <<cfgVars, extVars, limiterVars, sent, stopVars, jobChanClosed, stopped,
                   stopChClosed, ctxDone, mpc, handlerVars, mem, repo, nlines,
                   localFiles>>

\* Mutant: the receive leaves the job in the buffer.
WorkerReceiveKeeps(w) ==
    /\ Alive
    /\ wpc[w] = "idle"
    /\ jobChan # <<>>
    /\ handed[Head(jobChan)] < 2
    /\ wjob' = [wjob EXCEPT ![w] = Head(jobChan)]
    /\ handed' = [handed EXCEPT ![Head(jobChan)] = @ + 1]
    /\ wpc' = [wpc EXCEPT ![w] = "start"]
    /\ UNCHANGED <<cfgVars, extVars, limiterVars, sent, stopVars, dispVars, ctxDone, mpc,
                   handlerVars, mem, repo, nlines, localFiles>>

\* select: case job, ok := <-d.jobChan with a buffered job.
WorkerReceive(w) ==
    /\ Alive
    /\ wpc[w] = "idle"
    /\ jobChan # <<>>
    /\ wjob' = [wjob EXCEPT ![w] = Head(jobChan)]
    /\ handed' = [handed EXCEPT ![Head(jobChan)] = @ + 1]
    /\ jobChan' = Tail(jobChan)
    /\ wpc' = [wpc EXCEPT ![w] = "start"]
    /\ UNCHANGED <<cfgVars, extVars, limiterVars, sent, stopVars, jobChanClosed, stopped,
                   stopChClosed, ctxDone, mpc, handlerVars, mem, repo, nlines,
                   localFiles>>

\* select: case job, ok := <-d.jobChan with ok = false (closed and drained).
WorkerChanClosed(w) ==
    /\ Alive
    /\ wpc[w] = "idle"
    /\ jobChan = <<>> /\ jobChanClosed
    /\ wpc' = [wpc EXCEPT ![w] = "returned"]
    /\ UNCHANGED <<cfgVars, extVars, limiterVars, histVars, stopVars, dispVars, ctxDone, mpc, handlerVars, mem, repo,
                   wjob, nlines, localFiles>>

\* select: case <-ctx.Done()
WorkerCtxDone(w) ==
    /\ Alive
    /\ wpc[w] = "idle"
    /\ ctxDone
    /\ wpc' = [wpc EXCEPT ![w] = "returned"]
    /\ UNCHANGED <<cfgVars, extVars, limiterVars, histVars, stopVars, dispVars, ctxDone, mpc, handlerVars, mem, repo,
                   wjob, nlines, localFiles>>

\* select: case <-d.stopCh
WorkerStopSignal(w) ==
    /\ Alive
    /\ wpc[w] = "idle"
    /\ stopChClosed
    /\ wpc' = [wpc EXCEPT ![w] = "returned"]
    /\ UNCHANGED <<cfgVars, extVars, limiterVars, histVars, stopVars, dispVars, ctxDone, mpc, handlerVars, mem, repo,
                   wjob, nlines, localFiles>>

\* ---------------------------------------------------- Handlers.ProcessJob
\* What every return of ProcessJob leaves: the job object j written through
\* with h.repo.Update(ctx, job), the worker back at its select.
ProcessReturn(w, j) ==
    /\ mem' = [mem EXCEPT ![wjob[w]] = j]
    /\ repo' = Update(TRUE, wjob[w], j)
    /\ wpc' = [wpc EXCEPT ![w] = "idle"]
    /\ wjob' = [wjob EXCEPT ![w] = 0]
    /\ nlines' = [nlines EXCEPT ![w] = 0]

\* job.MarkProcessing(); h.repo.Update(ctx, job)
ProcessBegin(w) ==
    /\ Alive
    /\ wpc[w] = "start"
    /\ LET j == MarkProcessing(mem[wjob[w]]) IN
       /\ mem' = [mem EXCEPT ![wjob[w]] = j]
       /\ repo' = Update(TRUE, wjob[w], j)
    /\ wpc' = [wpc EXCEPT ![w] = "download"]
    /\ UNCHANGED <<cfgVars, extVars, limiterVars, histVars, stopVars, dispVars, ctxDone, mpc, handlerVars, wjob, nlines,
                   localFiles>>

\* progressCb of ProcessJob: job.UpdateProgress(progress);
\* h.repo.UpdateProgress(ctx, job.ID, progress)
ProgressCb(w, progress) ==
    /\ mem' = [mem EXCEPT ![wjob[w]] = UpdateProgress(mem[wjob[w]], progress)]
    /\ repo' = IF CtxLive(TRUE)
               THEN RepoUpdateProgress(repo, wjob[w], progress)
               ELSE repo

\* ---------------------------------------------------- Downloader.Download
\* int(progress) of the float parsed from "NN.N": truncation.
ParsePercent(tenths) == tenths \div 10

\* The error Download returns when cmd.Wait fails.  ctxErr: ctx.Err() of the
\* run's timeout context; stderr: the known substrings stderr contains.
WaitError(ctxErr, stderr) ==
    IF ctxErr = "deadline" THEN "download timed out"
    ELSE IF ctxErr = "canceled" THEN "download was canceled"
    ELSE IF "Video unavailable" \in stderr
         THEN "video is unavailable or private"
    ELSE IF "is not a valid URL" \in stderr THEN "invalid video URL"
    ELSE "yt-dlp error"

\* The values ctx.Err() can have once cmd.Wait has failed.
CtxErrs == IF ctxDone THEN {"canceled", "deadline"} ELSE {"none", "deadline"}

StderrOutputs == SUBSET {"Video unavailable", "is not a valid URL"}

\* The texts the output of a failed extractor run can contain.
ExtractorOutputs ==
    SUBSET {"Video unavailable", "private", "filesize", "duration<",
            "skipping", "is not a valid URL"}

\* Simple wiring, Downloader.Download: the error it returns when
\* CombinedOutput fails, as the words of handleDownloadError the message
\* contains.  The last message carries the output, taken as shorter than
\* the 200 characters truncate keeps.
CombinedOutputError(ctxErr, output) ==
    IF "Video unavailable" \in output THEN {"unavailable", "private"}
    ELSE IF "duration<" \in output /\ "skipping" \in output
    THEN {"duration"}
    ELSE IF "filesize" \in output THEN {"file size"}
    ELSE IF ctxErr = "deadline" THEN {"timed out"}
    ELSE (IF "private" \in output THEN {"private"} ELSE {})
         \cup (IF "duration<" \in output THEN {"duration"} ELSE {})

\* truncate of the simple wiring: the first maxLen characters and "...".
truncate(s, maxLen) ==
    IF Len(s) <= maxLen THEN s
    ELSE SubSeq(s, 1, maxLen) \o <<".", ".", ".">>

\* The output of the extractor besides the known texts: n characters.
Stderr(n) == [i \in 1..n |-> "x"]

\* The output the generic error of Download carries: the chi program puts
\* all of stderr into it, the simple wiring what truncate leaves.
GenericErrorText(simple, stderr) ==
    IF simple THEN truncate(stderr, ErrorTextLimit) ELSE stderr

\* Simple wiring, Handler.handleDownloadError
handleDownloadError(msg) ==
    IF "duration" \in msg
    THEN Reply(StatusBadRequest, "DURATION_EXCEEDED", 0)
    ELSE IF "filesize" \in msg \/ "file size" \in msg
    THEN Reply(StatusBadRequest, "SIZE_EXCEEDED", 0)
    ELSE IF "unavailable" \in msg \/ "private" \in msg
    THEN Reply(StatusNotFound, "VIDEO_UNAVAILABLE", 0)
    ELSE IF "timed out" \in msg
    THEN Reply(StatusGatewayTimeout, "TIMEOUT", 0)
    ELSE Reply(StatusInternalServerError, "DOWNLOAD_ERROR", 0)

\* The metadata line: none parsed, or its title and filename.
VideoInfos == {[title |-> "", present |-> FALSE, filename |-> ""],
               [title |-> "", present |-> TRUE, filename |-> ""],
               [title |-> "T", present |-> TRUE, filename |-> "f"]}

OutputDir == "tmp/"

\* The path of the artifact after a successful run: the one captured from
\* stdout, else OutputDir joined with the metadata filename, else the first
\* match of the glob on the timestamp prefix, else none ("").
ResolveDownloadedFile(captured, info, globbed) ==
    IF captured # "" THEN captured
    ELSE IF info.present /\ info.filename # "" THEN OutputDir \o info.filename
    ELSE globbed

\* cmd.Start()
DownloadStart(w) ==
    /\ Alive
    /\ wpc[w] = "download"
    /\ IF ctxDone
       THEN /\ ProcessReturn(w, MarkError(mem[wjob[w]], "failed to start yt-dlp"))
       ELSE /\ wpc' = [wpc EXCEPT ![w] = "scan"]
            /\ UNCHANGED <<mem, repo, wjob, nlines>>
    /\ UNCHANGED <<cfgVars, extVars, limiterVars, histVars, stopVars, dispVars, ctxDone, mpc, handlerVars, localFiles>>

\* The stdout scanner reads a "[download] NN.N%" line.
ProgressLine(w, tenths) ==
    /\ Alive
    /\ wpc[w] = "scan"
    /\ nlines[w] < MaxLines
    /\ ProgressCb(w, ParsePercent(tenths))
    /\ nlines' = [nlines EXCEPT ![w] = @ + 1]
    /\ UNCHANGED <<cfgVars, extVars, limiterVars, histVars, stopVars, dispVars, ctxDone, mpc, handlerVars, wpc, wjob,
                   localFiles>>

\* Mutant: ProcessJob without the return after the failed download.
DownloadFailNoReturn(w, ctxErr, stderr) ==
    /\ Alive
    /\ wpc[w] = "scan"
    /\ LET j == MarkError(mem[wjob[w]], WaitError(ctxErr, stderr)) IN
       /\ mem' = [mem EXCEPT ![wjob[w]] = j]
       /\ repo' = Update(TRUE, wjob[w], j)
    /\ wpc' = [wpc EXCEPT ![w] = "resolve"]
    /\ UNCHANGED <<cfgVars, extVars, limiterVars, histVars, stopVars, dispVars, ctxDone, mpc, handlerVars, wjob, nlines,
                   localFiles>>

\* cmd.Wait() returns an error; ProcessJob marks the job and returns.
DownloadFail(w, ctxErr, stderr) ==
    /\ Alive
    /\ wpc[w] = "scan"
    /\ ProcessReturn(w, MarkError(mem[wjob[w]], WaitError(ctxErr, stderr)))
    /\ UNCHANGED <<cfgVars, extVars, limiterVars, histVars, stopVars, dispVars, ctxDone, mpc, handlerVars, localFiles>>

\* cmd.Wait() returns nil: progressCb(100, "complete").
DownloadComplete(w) ==
    /\ Alive
    /\ wpc[w] = "scan"
    /\ ProgressCb(w, 100)
    /\ wpc' = [wpc EXCEPT ![w] = "resolve"]
    /\ UNCHANGED <<cfgVars, extVars, limiterVars, histVars, stopVars, dispVars, ctxDone, mpc, handlerVars, wjob, nlines,
                   localFiles>>

\* The rest of Download after the completion callback, and ProcessJob up to
\* its next call: in local mode MarkDone(filePath) and the final Update.
ResolvePath(w, captured, info, globbed, statOk) ==
    /\ Alive
    /\ wpc[w] = "resolve"
    /\ LET file == ResolveDownloadedFile(captured, info, globbed)
           id == wjob[w]
       IN
       IF file = ""
       THEN /\ ProcessReturn(w, MarkError(mem[id],
                                "could not determine downloaded file path"))
            /\ localFiles' = localFiles
       ELSE IF ~statOk
       THEN /\ ProcessReturn(w, MarkError(mem[id], "downloaded file not found"))
            /\ localFiles' = localFiles
       ELSE LET j == [mem[id] EXCEPT
                        !.title = IF info.present THEN info.title ELSE @,
                        !.filePath = file]
            IN
            /\ localFiles' = localFiles \cup {id}
            /\ IF r2Configured
               THEN /\ mem' = [mem EXCEPT ![id] = j]
                    /\ wpc' = [wpc EXCEPT ![w] = "upload"]
                    /\ UNCHANGED <<repo, wjob, nlines>>
               ELSE ProcessReturn(w, MarkDone(j, file))
    /\ UNCHANGED <<cfgVars, extVars, limiterVars, histVars, stopVars, dispVars, ctxDone, mpc, handlerVars>>

\* fileKey := job.ID + "/" + job.Title
FileKey(id, title) == ToString(id) \o "/" \o title

\* The URL GeneratePresignedURL returns for a key.
PresignedURL(key) == "https://r2/" \o key

\* h.r2Client.Upload(ctx, filePath, fileKey).  putOk: PutObject succeeds.
UploadArtifact(w, putOk) ==
    /\ Alive
    /\ wpc[w] = "upload"
    /\ LET id == wjob[w] IN
       IF id \in localFiles /\ ~ctxDone /\ putOk
       THEN /\ mem' = [mem EXCEPT ![id].fileKey = FileKey(id, mem[id].title)]
            /\ wpc' = [wpc EXCEPT ![w] = "presign"]
            /\ UNCHANGED <<repo, wjob, nlines>>
       ELSE ProcessReturn(w, MarkError(mem[id], "failed to upload file"))
    /\ UNCHANGED <<cfgVars, extVars, limiterVars, histVars, stopVars, dispVars, ctxDone, mpc, handlerVars, localFiles>>

\* Mutant: ProcessJob without the Cleanup after the upload.
PresignKeepsLocalFile(w, signOk) ==
    /\ Alive
    /\ wpc[w] = "presign"
    /\ LET id == wjob[w] IN
       IF signOk
       THEN ProcessReturn(w, MarkDone(mem[id], PresignedURL(mem[id].fileKey)))
       ELSE ProcessReturn(w, MarkError(mem[id],
                                "failed to generate download URL"))
    /\ UNCHANGED <<cfgVars, extVars, limiterVars, histVars, stopVars, dispVars, ctxDone, mpc, handlerVars, localFiles>>

\* h.r2Client.GeneratePresignedURL; job.MarkDone(downloadURL);
\* h.downloader.Cleanup(filePath); h.repo.Update(ctx, job)
Presign(w, signOk) ==
    /\ Alive
    /\ wpc[w] = "presign"
    /\ LET id == wjob[w] IN
       IF signOk
       THEN /\ ProcessReturn(w, MarkDone(mem[id], PresignedURL(mem[id].fileKey)))
            /\ localFiles' = localFiles \ {id}
       ELSE /\ ProcessReturn(w, MarkError(mem[id],
                                "failed to generate download URL"))
            /\ localFiles' = localFiles
    /\ UNCHANGED <<cfgVars, extVars, limiterVars, histVars, stopVars, dispVars, ctxDone, mpc, handlerVars>>

\* -------------------------------------------------------------------- main
\* SIGINT / SIGTERM: signal.NotifyContext cancels ctx; main passes <-ctx.Done().
Signal ==
    /\ mpc = "running"
    /\ ctxDone' = TRUE
    /\ mpc' = "shutdown"
    /\ UNCHANGED <<cfgVars, extVars, limiterVars, histVars, stopVars, dispVars, handlerVars, mem, repo,
                   workerVars, localFiles>>

\* server.Shutdown(shutdownCtx) returns: the in-flight requests are done, or
\* the 30 s are over.  main returns and its deferred calls run, last first.
ServerShutdown ==
    /\ mpc = "shutdown"
    /\ mpc' = "sweepersStop"
    /\ UNCHANGED <<cfgVars, extVars, limiterVars, histVars, stopVars, dispVars, ctxDone, handlerVars, mem,
                   repo, workerVars, localFiles>>

\* defer cleaner.Stop(): close(c.stopCh); defer rateLimiter.Stop():
\* close(rl.stopCh); then the deferred dispatcher.Stop() is called.
SweepersStop ==
    /\ mpc = "sweepersStop"
    /\ cleanerStopped' = TRUE
    /\ limiterStopped' = TRUE
    /\ mpc' = "stop"
    /\ spc' = [spc EXCEPT ![0] = "swap"]
    /\ UNCHANGED <<cfgVars, extVars, limiterVars, histVars, dispVars, ctxDone, handlerVars, mem, repo,
                   workerVars, localFiles, repoClosed>>

\* defer repo.Close(), once dispatcher.Stop() has returned; then the deferred
\* cancel() and the return of main end the process.
RepoClose ==
    /\ mpc = "stop"
    /\ spc[0] \in {"returned", "returnedEarly"}
    /\ repoClosed' = TRUE
    /\ mpc' = "exited"
    /\ UNCHANGED <<cfgVars, extVars, limiterVars, histVars, dispVars, ctxDone, handlerVars, mem, repo,
                   workerVars, localFiles, spc, cleanerStopped, limiterStopped>>

\* -------------------------------------------------------- Dispatcher.Stop
\* A goroutine other than main calls Stop.
StopCall(c) ==
    /\ Alive
    /\ c # 0
    /\ spc[c] = "idle"
    /\ spc' = [spc EXCEPT ![c] = "swap"]
    /\ UNCHANGED <<cfgVars, extVars, limiterVars, histVars, dispVars, ctxDone, mpc, handlerVars, mem, repo,
                   workerVars, localFiles, cleanerStopped, limiterStopped,
                   repoClosed>>

\* Mutant: Stop without the check of the flag it swaps.
StopSwapUnchecked(c) ==
    /\ Alive
    /\ spc[c] = "swap"
    /\ stopped' = TRUE
    /\ spc' = [spc EXCEPT ![c] = "closeStopCh"]
    /\ UNCHANGED <<cfgVars, extVars, limiterVars, histVars, jobChan, jobChanClosed, stopChClosed, ctxDone,
                   mpc, handlerVars, mem, repo, workerVars, localFiles,
                   cleanerStopped, limiterStopped, repoClosed>>

\* if d.stopped.Swap(true) { return }
StopSwap(c) ==
    /\ Alive
    /\ spc[c] = "swap"
    /\ stopped' = TRUE
    /\ spc' = [spc EXCEPT ![c] = IF stopped THEN "returnedEarly"
                                  ELSE "closeStopCh"]
    /\ UNCHANGED <<cfgVars, extVars, limiterVars, histVars, jobChan, jobChanClosed, stopChClosed, ctxDone,
                   mpc, handlerVars, mem, repo, workerVars, localFiles,
                   cleanerStopped, limiterStopped, repoClosed>>

\* close(d.stopCh); closing a closed channel panics.
StopCloseStopCh(c) ==
    /\ Alive
    /\ spc[c] = "closeStopCh"
    /\ stopChClosed' = TRUE
    /\ spc' = [spc EXCEPT ![c] = IF stopChClosed THEN "panic"
                                  ELSE "closeJobChan"]
    /\ UNCHANGED <<cfgVars, extVars, limiterVars, histVars, jobChan, jobChanClosed, stopped, ctxDone, mpc,
                   handlerVars, mem, repo, workerVars, localFiles,
                   cleanerStopped, limiterStopped, repoClosed>>

\* close(d.jobChan)
StopCloseJobChan(c) ==
    /\ Alive
    /\ spc[c] = "closeJobChan"
    /\ jobChanClosed' = TRUE
    /\ spc' = [spc EXCEPT ![c] = IF jobChanClosed THEN "panic" ELSE "wait"]
    /\ UNCHANGED <<cfgVars, extVars, limiterVars, histVars, jobChan, stopped, stopChClosed, ctxDone, mpc,
                   handlerVars, mem, repo, workerVars, localFiles,
                   cleanerStopped, limiterStopped, repoClosed>>

\* Mutant: Stop returns without joining the workers.
StopNoWait(c) ==
    /\ Alive
    /\ spc[c] = "wait"
    /\ spc' = [spc EXCEPT ![c] = "returned"]
    /\ UNCHANGED <<cfgVars, extVars, limiterVars, histVars, dispVars, ctxDone, mpc, handlerVars, mem, repo,
                   workerVars, localFiles, cleanerStopped, limiterStopped,
                   repoClosed>>

\* d.workerWg.Wait() returns once every worker has returned.
StopWait(c) ==
    /\ Alive
    /\ spc[c] = "wait"
    /\ \A w \in Workers : wpc[w] \in {"returned", "absent"}
    /\ spc' = [spc EXCEPT ![c] = "returned"]
    /\ UNCHANGED <<cfgVars, extVars, limiterVars, histVars, dispVars, ctxDone, mpc, handlerVars, mem, repo,
                   workerVars, localFiles, cleanerStopped, limiterStopped,
                   repoClosed>>

GoodURL == <<"https", ":", "/", "/", "youtube", ".", "com", "/", "w">>
BadURL == <<"https", ":", "/", "/", "evil", ".", "com", "/", "w">>
Bodies == {NotJSON, GoodURL, BadURL}

\* POST /api/download of client r without a challenge token.
Submit(r) ==
    [ip |-> r, route |-> "download", token |-> "", job |-> 0, body |-> <<>>]

\* What the handlers, the dispatcher and main do, whatever the extractor does.
Admission(ids) ==
    \/ \E r \in ids, body \in Bodies : Arrive(r, Submit(r), body)
    \/ \E r \in ids : CheckFull(r)
    \/ \E r \in ids : CreateJob(r)
    \/ \E r \in ids : EnqueueLoad(r)
    \/ \E r \in ids : EnqueueSend(r)
    \/ \E r \in ids : EnqueueFailed(r)
    \/ \E w \in Workers : WorkerReceive(w)
    \/ \E w \in Workers : WorkerChanClosed(w)
    \/ \E w \in Workers : WorkerCtxDone(w)
    \/ \E w \in Workers : WorkerStopSignal(w)
    \/ \E w \in Workers : ProcessBegin(w)
    \/ \E w \in Workers : DownloadStart(w)
    \/ \E w \in Workers : DownloadComplete(w)
    \/ Signal
    \/ ServerShutdown
    \/ SweepersStop
    \/ RepoClose
    \/ \E c \in StopCallers : StopSwap(c)
    \/ \E c \in StopCallers : StopCloseStopCh(c)
    \/ \E c \in StopCallers : StopCloseJobChan(c)
    \/ \E c \in StopCallers : StopWait(c)

\* The full pipeline: MaxJobs submits, every output the extractor and the
\* object store can produce.
Next ==
    \/ Admission(1..MaxJobs)
    \/ \E w \in Workers, t \in ProgressLines : ProgressLine(w, t)
    \/ \E w \in Workers, e \in CtxErrs, s \in StderrOutputs : DownloadFail(w, e, s)
    \/ \E w \in Workers, c \in {"", "tmp/f"}, i \in VideoInfos,
          g \in {"", "tmp/f"}, ok \in BOOLEAN : ResolvePath(w, c, i, g, ok)
    \/ \E w \in Workers, ok \in BOOLEAN : UploadArtifact(w, ok)
    \/ \E w \in Workers, ok \in BOOLEAN : Presign(w, ok)

Spec == Init /\ [][Next]_vars

\* Admission under load: MaxSubmits submits in local mode; an extractor run
\* prints no progress line and either fails or leaves its artifact at the
\* captured path.
InitAdmit == Init /\ ~r2Configured

NextAdmit ==
    \/ Admission(1..MaxSubmits)
    \/ \E w \in Workers, e \in CtxErrs : DownloadFail(w, e, {})
    \/ \E w \in Workers : ResolvePath(w, "tmp/f", CHOOSE i \in VideoInfos : i.title # "", "", TRUE)

SpecAdmit == InitAdmit /\ [][NextAdmit]_vars

\* Stop called from several goroutines, at any time, besides main's deferred
\* call: MaxJobs submits in local mode, extractor runs as in SpecAdmit.
NextStop ==
    \/ Admission(1..MaxJobs)
    \/ \E c \in StopCallers : StopCall(c)
    \/ \E w \in Workers, e \in CtxErrs : DownloadFail(w, e, {})
    \/ \E w \in Workers : ResolvePath(w, "tmp/f", CHOOSE i \in VideoInfos : i.title # "", "", TRUE)

SpecStop == InitAdmit /\ [][NextStop]_vars

\* ---------------------------------------------------- the middleware chain
\* The requests a client can send: the route, its IP, a challenge token or
\* none, and for a status poll the job asked for.
Requests ==
    [ip : 1..MaxClients, route : {"download", "status"}, token : {"", "t"},
     job : {1}, body : {<<>>}]

\* What the simple wiring's download and upload do for a valid request.
SimpleResults == {"ok", "download failed", "upload failed"}

\* Either wiring, with or without the challenge, with a limiter that a
\* few requests exhaust.  No worker runs: a queued job stays queued.
InitGate ==
    /\ Boot
    /\ numWorkers = 1 /\ ~r2Configured
    /\ wiring \in {"router", "simple"}
    /\ turnstileSkip \in BOOLEAN
    /\ secretKey \in {"", "k"}
    /\ rateBurst \in {1, DefaultBurst}
    /\ rateRPM = rateBurst

\* Requests of any kind through the chain and the submit handler.  The
\* simple wiring routes no status poll.
NextGate ==
    \/ \E r \in 1..MaxRequests, q \in Requests, body \in Bodies :
          (wiring = "simple" => q.route = "download") /\ Arrive(r, q, body)
    \/ \E r \in 1..MaxRequests, o \in VerifyOutcomes, body \in Bodies :
          VerifyTurnstile(r, o, body)
    \/ \E r \in 1..MaxRequests : SimpleRateLimit(r)
    \/ \E r \in 1..MaxRequests, body \in Bodies, res \in SimpleResults :
          SimpleDownload(r, body, res)
    \/ \E r \in 1..MaxRequests : ServeStatus(r)
    \/ \E r \in 1..MaxRequests : CheckFull(r)
    \/ \E r \in 1..MaxRequests : CreateJob(r)
    \/ \E r \in 1..MaxRequests : EnqueueLoad(r)
    \/ \E r \in 1..MaxRequests : EnqueueSend(r)
    \/ \E r \in 1..MaxRequests : EnqueueFailed(r)

SpecGate == InitGate /\ [][NextGate]_vars

\* ------------------------------------------------------- the limiter alone
\* The waits of the client between two of its requests, in seconds: one
\* sixth of a minute, and until its entry has aged out.
Waits == {10, CleanupInterval + 1}

\* Time passes: the client waits after a request.
Tick(d) ==
    /\ limiterLog # <<>>
    /\ limiterLog[Len(limiterLog)].at = now
    /\ Len(limiterLog) < MaxArrivals
    /\ now' = now + d
    /\ UNCHANGED <<cfgVars, extVars, visitors, clients, limiterLog, histVars,
                   stopVars, dispVars, ctxDone, mpc, handlerVars, mem, repo,
                   workerVars, localFiles>>

\* RateLimitMiddleware for a request of client ip on a route whose handler
\* answers 200.
LimitedArrive(ip) ==
    /\ Len(limiterLog) < MaxArrivals
    /\ LET a == Allow(visitors, ip, now) IN
       /\ visitors' = a.visitors
       /\ limiterLog' = Append(limiterLog,
              [status |-> IF a.ok THEN StatusOK ELSE RateLimited.status,
               retry |-> IF a.ok THEN 0 ELSE RateLimited.retry,
               at |-> now])
    /\ UNCHANGED <<cfgVars, extVars, now, clients, histVars, stopVars, dispVars,
                   ctxDone, mpc, handlerVars, mem, repo, workerVars,
                   localFiles>>

\* cleanup, run by cleanupOldEntries on every tick: the visitors not seen
\* for CleanupInterval are deleted.
Cleanup ==
    /\ visitors' = [ip \in Addrs |->
                      IF visitors[ip].exists
                         /\ visitors[ip].lastSeen < now - CleanupInterval
                      THEN NoVisitor ELSE visitors[ip]]
    /\ UNCHANGED <<cfgVars, extVars, now, clients, limiterLog, histVars, stopVars,
                   dispVars, ctxDone, mpc, handlerVars, mem, repo,
                   workerVars, localFiles>>

\* One client and a limiter of the default or a nearby configuration.
InitLimit ==
    /\ Boot
    /\ numWorkers = 1 /\ queueCap = 1 /\ ~r2Configured
    /\ wiring = "router" /\ turnstileSkip = TRUE /\ secretKey = ""
    /\ \/ rateRPM = DefaultRequestsPerMinute /\ rateBurst = DefaultBurst
       \/ rateRPM = DefaultRequestsPerMinute + 1 /\ rateBurst = 1

NextLimit ==
    \/ LimitedArrive(1)
    \/ \E d \in Waits : Tick(d)
    \/ Cleanup

SpecLimit == InitLimit /\ [][NextLimit]_vars

\* The entries of a limiter whose client 1 has just used up its burst.
UsedUp ==
    [ip \in Addrs |-> IF ip = 1
                      THEN [exists |-> TRUE, tokens |-> 0, last |-> 0, lastSeen |-> 0]
                      ELSE NoVisitor]

\* One client that has used up its burst, under RATE_LIMIT_RPM=1 and a
\* RATE_LIMIT_BURST that one request a minute does not refill within
\* CleanupInterval.
InitGC ==
    /\ BootWith(UsedUp)
    /\ numWorkers = 1 /\ queueCap = 1 /\ ~r2Configured
    /\ wiring = "router" /\ turnstileSkip = TRUE /\ secretKey = ""
    /\ rateRPM = 1 /\ rateBurst = CleanupInterval \div SecondsPerMinute + 1

SpecGC == InitGC /\ [][NextLimit]_vars

\* ------------------------------------------------------ URLs in a request
\* The URLs a client sends, composed of their parts: space in front, scheme
\* and slashes, userinfo, host, port, path, query, fragment, space behind.
RawURLs ==
    LET wraps == {<<>>, <<" ">>}
        prefixes ==
            {<<>>, <<"https", ":", "/", "/">>, <<"http", ":", "/", "/">>,
             <<"ftp", ":", "/", "/">>, <<"https", ":">>, <<"https", ":", "/">>}
        users == {<<>>, <<"user", "@">>}
        hosts ==
            {<<>>, <<"youtube", ".", "com">>, <<"YouTube", ".", "com">>,
             <<"music", ".", "youtube", ".", "com">>, <<"evil", ".", "com">>,
             <<"v", ".", "redd", ".", "it">>,
             <<"x", ".", "v", ".", "redd", ".", "it">>,
             <<"youtube", ".", "com", ".", "evil", ".", "com">>}
        ports == {<<>>, <<":", "80">>}
        paths ==
            {<<>>, <<"/">>, <<"/", "w">>, <<"/", "w", "/">>,
             <<"/", "w", "/", "/">>, <<"/", "%">>, <<"/", "w", ";">>}
        queries == {<<>>, <<"?">>, <<"?", "q", "&", "q">>, <<"?", "q", "/">>}
        fragments == {<<>>, <<"#", "f">>}
    IN {w \o p \o u \o h \o o \o a \o q \o f \o v :
           w \in wraps, p \in prefixes, u \in users, h \in hosts,
           o \in ports, a \in paths, q \in queries, f \in fragments,
           v \in wraps}

\* One worker, a queue of one, no challenge and no object store, in
\* either wiring.
InitPlain ==
    /\ Boot
    /\ numWorkers = 1 /\ queueCap = 1 /\ ~r2Configured
    /\ wiring \in {"router", "simple"}
    /\ turnstileSkip = TRUE /\ secretKey = ""
    /\ rateRPM = DefaultRequestsPerMinute /\ rateBurst = DefaultBurst

NextURL ==
    \/ /\ hpc[1] = "none"
       /\ \E body \in RawURLs \cup {NotJSON} : Arrive(1, Submit(1), body)
    \/ /\ hpc[1] = "simple"
       /\ \E body \in RawURLs \cup {NotJSON}, res \in SimpleResults :
             SimpleDownload(1, body, res)
    \/ CheckFull(1)
    \/ CreateJob(1)
    \/ EnqueueLoad(1)
    \/ EnqueueSend(1)
    \/ \E w \in Workers : WorkerReceive(w)
    \/ \E w \in Workers : ProcessBegin(w)
    \/ \E w \in Workers : DownloadStart(w)

SpecURL == InitPlain /\ [][NextURL]_vars

\* ------------------------------------------------------------ safe dialer
\* An IP address is the tuple of its bytes: 4 as dotted text, 16 as net.IP.
Zeros(n) == [i \in 1..n |-> 0]

\* ::ffff:a.b.c.d
Mapped(ip4) == Zeros(10) \o <<255, 255>> \o ip4

\* An IPv6 address of four leading bytes, zeros and a last byte.
V6(a, b, c, d, z) == <<a, b, c, d>> \o Zeros(11) \o <<z>>

\* net.ParseIP: dotted text gives the 16 bytes of the IPv4-mapped form.
ParseIP(addr) == IF Len(addr) = 4 THEN Mapped(addr) ELSE addr

\* IP.To4: the 4 bytes of an IPv4 or IPv4-mapped address, else nil (<<>>).
To4(ip) ==
    IF Len(ip) = 4 THEN ip
    ELSE IF Len(ip) = 16 /\ SubSeq(ip, 1, 12) = Zeros(10) \o <<255, 255>>
    THEN SubSeq(ip, 13, 16)
    ELSE <<>>

\* net.IPNet{IP, Mask: net.CIDRMask(ones, bits)}
IPNet(ip, ones) == [ip |-> ip, ones |-> ones]

Pow2(n) == IF n = 0 THEN 1 ELSE IF n = 1 THEN 2 ELSE IF n = 2 THEN 4
           ELSE IF n = 3 THEN 8 ELSE IF n = 4 THEN 16 ELSE IF n = 5 THEN 32
           ELSE IF n = 6 THEN 64 ELSE IF n = 7 THEN 128 ELSE 256

\* IPNet.Contains: both sides through To4, equal lengths, equal bytes
\* under the mask.
Contains(network, ip) ==
    LET nn == IF To4(network.ip) # <<>> THEN To4(network.ip) ELSE network.ip
        x == IF To4(ip) # <<>> THEN To4(ip) ELSE ip
    IN /\ Len(x) = Len(nn)
       /\ \A i \in 1..Len(nn) :
             LET free == Max(0, Min(8, 8 * i - network.ones))
             IN nn[i] \div Pow2(free) = x[i] \div Pow2(free)

forbiddenIPRanges ==
    {IPNet(Mapped(<<10, 0, 0, 0>>), 8), IPNet(Mapped(<<172, 16, 0, 0>>), 12),
     IPNet(Mapped(<<192, 168, 0, 0>>), 16), IPNet(Mapped(<<127, 0, 0, 0>>), 8),
     IPNet(Mapped(<<169, 254, 0, 0>>), 16), IPNet(Mapped(<<224, 0, 0, 0>>), 4),
     IPNet(Mapped(<<255, 255, 255, 255>>), 32),
     IPNet(Mapped(<<100, 64, 0, 0>>), 10), IPNet(Mapped(<<0, 0, 0, 0>>), 8),
     IPNet(Mapped(<<192, 0, 2, 0>>), 24), IPNet(Mapped(<<198, 51, 100, 0>>), 24),
     IPNet(Mapped(<<203, 0, 113, 0>>), 24),
     IPNet(Mapped(<<169, 254, 169, 254>>), 32)}

forbiddenIPv6Ranges ==
    {IPNet(V6(0, 0, 0, 0, 1), 128), IPNet(Zeros(16), 128),
     IPNet(V6(252, 0, 0, 0, 0), 7), IPNet(V6(254, 128, 0, 0, 0), 10),
     IPNet(V6(254, 192, 0, 0, 0), 10), IPNet(V6(255, 0, 0, 0, 0), 8),
     IPNet(V6(32, 1, 13, 184, 0), 32)}

\* Mutant: isForbiddenIP without the extraction of the IPv4 part.
isForbiddenIPv6Only(ip) ==
    \/ ip = <<>>
    \/ \E network \in forbiddenIPv6Ranges : Contains(network, ip)

isForbiddenIP(ip) ==
    \/ ip = <<>>
    \/ IF To4(ip) # <<>>
       THEN \E network \in forbiddenIPRanges : Contains(network, To4(ip))
       ELSE \E network \in forbiddenIPv6Ranges : Contains(network, ip)

\* The Control function of safeDialer on the resolved address: the result
\* of the dial.
SafeControl(addr) ==
    IF isForbiddenIP(ParseIP(addr)) THEN "forbidden IP" ELSE "connected"

\* The dial of a client: NewSafeHTTPClient dials through safeDialer, every
\* other client connects to whatever address was resolved.
Dial(client, addr) ==
    [ip |-> addr,
     result |-> IF client = "safe" THEN SafeControl(addr) ELSE "connected",
     client |-> client]

\* The addresses a host name can resolve to.
ResolvedIPs ==
    {<<127, 0, 0, 1>>, <<10, 1, 2, 3>>, <<169, 254, 169, 254>>,
     <<172, 16, 0, 1>>, <<172, 31, 255, 255>>, <<172, 32, 0, 1>>,
     <<172, 15, 255, 255>>, <<192, 168, 1, 1>>, <<192, 169, 0, 1>>,
     <<100, 64, 0, 1>>, <<100, 127, 255, 255>>, <<100, 128, 0, 1>>,
     <<0, 1, 2, 3>>, <<224, 0, 0, 1>>, <<239, 255, 255, 255>>,
     <<240, 0, 0, 1>>, <<255, 255, 255, 255>>, <<192, 0, 2, 1>>,
     <<198, 51, 100, 1>>, <<203, 0, 113, 1>>, <<8, 8, 8, 8>>, <<1, 1, 1, 1>>,
     <<11, 0, 0, 1>>, <<128, 0, 0, 1>>,
     V6(0, 0, 0, 0, 1), Zeros(16), V6(0, 0, 0, 0, 2), V6(252, 0, 0, 0, 1),
     V6(253, 0, 0, 0, 1), V6(254, 0, 0, 0, 1), V6(254, 128, 0, 0, 1),
     V6(254, 191, 0, 0, 1), V6(254, 192, 0, 0, 1), V6(255, 2, 0, 0, 1),
     V6(32, 1, 13, 184, 1), V6(32, 1, 72, 96, 136),
     Mapped(<<127, 0, 0, 1>>), Mapped(<<10, 1, 2, 3>>),
     Mapped(<<169, 254, 169, 254>>), Mapped(<<8, 8, 8, 8>>)}

\* VerifyTurnstile sends its request: the chi program through the client of
\* NewSafeHTTPClientWithTimeout, the simple wiring through http.PostForm.
\* A redirect is followed by one more dial of the same client.
VerifierDial(r, addr) ==
    /\ Alive
    /\ hpc[r] = "verify"
    /\ Cardinality(dials) < MaxDials
    /\ dials' = dials \cup
          {Dial(IF wiring = "router" THEN "safe" ELSE "default", addr)}
    /\ UNCHANGED <<cfgVars, oldFiles, scan, failed, r2Vars, disk, cleaned, outputDir, lpc, sweeps, limiterVars, histVars, stopVars, dispVars,
                   ctxDone, mpc, handlerVars, mem, repo, workerVars,
                   localFiles>>

\* r2Client.Upload sends PutObject through the HTTP client of the AWS SDK:
\* NewClient sets none of its own.
ObjectStoreDial(w, addr) ==
    /\ Alive
    /\ wpc[w] = "upload"
    /\ Cardinality(dials) < MaxDials
    /\ dials' = dials \cup {Dial("default", addr)}
    /\ UNCHANGED <<cfgVars, oldFiles, scan, failed, r2Vars, disk, cleaned, outputDir, lpc, sweeps, limiterVars, histVars, stopVars, dispVars,
                   ctxDone, mpc, handlerVars, mem, repo, workerVars,
                   localFiles>>

\* One request with a challenge token, a worker and the object store.
InitDial ==
    /\ Boot
    /\ numWorkers = 1 /\ queueCap = 1 /\ r2Configured
    /\ wiring \in {"router", "simple"}
    /\ turnstileSkip = FALSE /\ secretKey = "k"
    /\ rateRPM = DefaultRequestsPerMinute /\ rateBurst = DefaultBurst

NextDial ==
    \/ Arrive(1, [Submit(1) EXCEPT !.token = "t"], GoodURL)
    \/ \E addr \in ResolvedIPs : VerifierDial(1, addr)
    \/ \E o \in VerifyOutcomes : VerifyTurnstile(1, o, GoodURL)
    \/ SimpleRateLimit(1)
    \/ \E res \in SimpleResults : SimpleDownload(1, GoodURL, res)
    \/ CheckFull(1)
    \/ CreateJob(1)
    \/ EnqueueLoad(1)
    \/ EnqueueSend(1)
    \/ \E w \in Workers : WorkerReceive(w)
    \/ \E w \in Workers : ProcessBegin(w)
    \/ \E w \in Workers : DownloadStart(w)
    \/ \E w \in Workers : DownloadComplete(w)
    \/ \E w \in Workers, info \in VideoInfos :
          ResolvePath(w, "tmp/a", info, "", TRUE)
    \/ \E w \in Workers, addr \in ResolvedIPs : ObjectStoreDial(w, addr)
    \/ \E w \in Workers, ok \in BOOLEAN : UploadArtifact(w, ok)

SpecDial == InitDial /\ [][NextDial]_vars

\* -------------------------------------------------- the calls of Cleanup
\* Some program writes a file.
WriteFile(p) ==
    /\ Cardinality(disk) < MaxFiles
    /\ disk' = disk \cup {Abs(p)}
    /\ UNCHANGED <<cfgVars, oldFiles, scan, failed, r2Vars, dials, cleaned, outputDir, lpc, sweeps, limiterVars, histVars, stopVars,
                   dispVars, ctxDone, mpc, handlerVars, mem, repo,
                   workerVars, localFiles>>

\* A call of Cleanup: ProcessJob calls the downloader's, Handler.Download of
\* the simple wiring the storage's.
CleanupCall(p) ==
    /\ LET c == IF wiring = "router" THEN DownloaderCleanup(disk, p)
                ELSE StorageCleanup(disk, p)
       IN /\ cleaned' = c
          /\ disk' = IF c.removed THEN disk \ {Abs(p)} ELSE disk
    /\ UNCHANGED <<cfgVars, oldFiles, scan, failed, r2Vars, dials, outputDir, lpc, sweeps, limiterVars,
                   histVars, stopVars, dispVars, ctxDone, mpc, handlerVars,
                   mem, repo, workerVars, localFiles>>

NextCleanup ==
    \/ \E p \in FilePaths : WriteFile(p)
    \/ \E p \in FilePaths \cup {<<>>} : CleanupCall(p)

SpecCleanup == InitPlain /\ [][NextCleanup]_vars

\* --------------------------------------------------------- the local sweep
\* A file or a directory appears in the output directory, after the
\* entries that are there.
NewEntry(e) ==
    /\ Len(outputDir) < MaxEntries
    /\ outputDir' = Append(outputDir, e)
    /\ UNCHANGED <<cfgVars, oldFiles, scan, failed, r2Vars, dials, disk, cleaned, lpc, sweeps, limiterVars,
                   histVars, stopVars, dispVars, ctxDone, mpc, handlerVars,
                   mem, repo, workerVars, localFiles>>

\* Time passes: the modification time of entry i is now before the
\* threshold.
Expire(i) ==
    /\ i \in 1..Len(outputDir)
    /\ ~outputDir[i].old
    /\ outputDir' = [outputDir EXCEPT ![i].old = TRUE]
    /\ UNCHANGED <<cfgVars, oldFiles, scan, failed, r2Vars, dials, disk, cleaned, lpc, sweeps, limiterVars,
                   histVars, stopVars, dispVars, ctxDone, mpc, handlerVars,
                   mem, repo, workerVars, localFiles>>

\* startLocalCleanup: c.cleanupLocal() before the loop.  The walk removes
\* the old artifacts of the jobs with the other old files.
LocalSweepStart ==
    /\ wiring = "router"
    /\ lpc = "start"
    /\ sweeps < MaxSweeps
    /\ outputDir' = Walk(outputDir)
    /\ localFiles' = localFiles \ oldFiles
    /\ sweeps' = sweeps + 1
    /\ lpc' = "waiting"
    /\ UNCHANGED <<cfgVars, oldFiles, scan, failed, r2Vars, dials, disk, cleaned, limiterVars, histVars,
                   stopVars, dispVars, ctxDone, mpc, handlerVars, mem, repo,
                   workerVars>>

\* case <-ticker.C: c.cleanupLocal()
LocalSweepTick ==
    /\ wiring = "router"
    /\ lpc = "waiting"
    /\ sweeps < MaxSweeps
    /\ outputDir' = Walk(outputDir)
    /\ localFiles' = localFiles \ oldFiles
    /\ sweeps' = sweeps + 1
    /\ UNCHANGED <<cfgVars, oldFiles, scan, failed, r2Vars, dials, disk, cleaned, lpc, limiterVars,
                   histVars, stopVars, dispVars, ctxDone, mpc, handlerVars,
                   mem, repo, workerVars>>

\* case <-ctx.Done() / case <-c.stopCh: return
LocalSweepReturn ==
    /\ wiring = "router"
    /\ lpc = "waiting"
    /\ ctxDone \/ cleanerStopped
    /\ lpc' = "stopped"
    /\ UNCHANGED <<cfgVars, oldFiles, scan, failed, r2Vars, dials, disk, cleaned, outputDir, sweeps,
                   limiterVars, histVars, stopVars, dispVars, ctxDone, mpc,
                   handlerVars, mem, repo, workerVars, localFiles>>

NextSweep ==
    \/ \E e \in Entries : NewEntry(e)
    \/ \E i \in 1..MaxEntries : Expire(i)
    \/ LocalSweepStart
    \/ LocalSweepTick
    \/ LocalSweepReturn
    \/ Signal

SpecSweep == InitPlain /\ [][NextSweep]_vars

\* ------------------------------------------------- the object-store sweep
\* An upload puts an object into the bucket, at the place of its key.
PutObject(i, o) ==
    /\ r2Configured
    /\ Len(bucket) < MaxObjects
    /\ i \in 0..Len(bucket)
    /\ bucket' = SubSeq(bucket, 1, i) \o <<o>>
                  \o SubSeq(bucket, i + 1, Len(bucket))
    /\ UNCHANGED <<cfgVars, oldFiles, scan, failed, r2pc, r2Log, dials, disk, cleaned, outputDir,
                   lpc, sweeps, limiterVars, histVars, stopVars, dispVars,
                   ctxDone, mpc, handlerVars, mem, repo, workerVars,
                   localFiles>>

\* Time passes: the LastModified of object i is now before the threshold.
ExpireObject(i) ==
    /\ i \in 1..Len(bucket)
    /\ ~bucket[i].old
    /\ bucket' = [bucket EXCEPT ![i].old = TRUE]
    /\ UNCHANGED <<cfgVars, oldFiles, scan, failed, r2pc, r2Log, dials, disk, cleaned, outputDir,
                   lpc, sweeps, limiterVars, histVars, stopVars, dispVars,
                   ctxDone, mpc, handlerVars, mem, repo, workerVars,
                   localFiles>>

\* Cleaner.Start: go c.startR2Cleanup(ctx), which waits for the first tick.
R2SweepStart ==
    /\ wiring = "router" /\ r2Configured
    /\ r2pc = "start"
    /\ r2pc' = "waiting"
    /\ UNCHANGED <<cfgVars, oldFiles, scan, failed, bucket, r2Log, dials, disk, cleaned, outputDir,
                   lpc, sweeps, limiterVars, histVars, stopVars, dispVars,
                   ctxDone, mpc, handlerVars, mem, repo, workerVars,
                   localFiles>>

\* case <-ticker.C: c.cleanupR2(ctx)
R2SweepTick(listed) ==
    /\ r2pc = "waiting"
    /\ Len(r2Log) < MaxSweeps
    /\ LET d == DeleteOlderThan(bucket, listed)
       IN /\ bucket' = d.left
          /\ r2Log' = Append(r2Log, [error |-> d.error, count |-> d.count])
    /\ UNCHANGED <<cfgVars, oldFiles, scan, failed, r2pc, dials, disk, cleaned, outputDir,
                   lpc, sweeps, limiterVars, histVars, stopVars, dispVars,
                   ctxDone, mpc, handlerVars, mem, repo, workerVars,
                   localFiles>>

\* case <-ctx.Done() / case <-c.stopCh: return
R2SweepReturn ==
    /\ r2pc = "waiting"
    /\ ctxDone \/ cleanerStopped
    /\ r2pc' = "stopped"
    /\ UNCHANGED <<cfgVars, oldFiles, scan, failed, bucket, r2Log, dials, disk, cleaned, outputDir,
                   lpc, sweeps, limiterVars, histVars, stopVars, dispVars,
                   ctxDone, mpc, handlerVars, mem, repo, workerVars,
                   localFiles>>

NextBucket ==
    \/ \E i \in 0..MaxObjects, o \in Objects : PutObject(i, o)
    \/ \E i \in 1..MaxObjects : ExpireObject(i)
    \/ R2SweepStart
    \/ \E listed \in BOOLEAN : R2SweepTick(listed)
    \/ R2SweepReturn
    \/ Signal

SpecBucket == InitDial /\ [][NextBucket]_vars

\* --------------------------------------------- the failed extractor run
\* The extractor run fails: the chi program records the error of Download
\* in the job, the simple wiring answers with the code of
\* handleDownloadError.
ExtractorFails(ctxErr, output, n) ==
    /\ LET error == IF wiring = "router" THEN WaitError(ctxErr, output)
                    ELSE handleDownloadError(
                            CombinedOutputError(ctxErr, output)).code
       IN failed' =
             [error |-> error, ctxErr |-> ctxErr, stderr |-> output,
              text |-> IF error \in {"yt-dlp error", "DOWNLOAD_ERROR"}
                       THEN GenericErrorText(wiring = "simple", Stderr(n))
                       ELSE <<>>]
    /\ UNCHANGED <<cfgVars, oldFiles, scan, r2Vars, dials, disk, cleaned, outputDir, lpc,
                   sweeps, limiterVars, histVars, stopVars, dispVars,
                   ctxDone, mpc, handlerVars, mem, repo, workerVars,
                   localFiles>>

NextFail ==
    \E ctxErr \in {"none", "deadline", "canceled"},
       output \in ExtractorOutputs,
       n \in {0, 1, ErrorTextLimit, ErrorTextLimit + 1, MaxStderr} :
          ExtractorFails(ctxErr, output, n)

SpecFail == InitPlain /\ [][NextFail]_vars


\* ------------------------------------------------------ the stdout scanner
\* The lines of stdout by the pattern they match, with the text of the
\* capture group the scanner uses (of MoveFiles the second); "other": a
\* line no destination pattern matches.
StdoutLines ==
    {[kind |-> k, group |-> g] :
        k \in {"Destination", "already", "Merger", "ffmpeg", "MoveFiles"},
        g \in {<<"tmp/a">>, <<" ", "tmp/b", " ">>}}
    \cup {[kind |-> "other", group |-> <<>>]}

\* Mutant: the scanner keeps the first path it has captured.
CaptureLineKeepsFirst(downloadedFile, line) ==
    LET group == TrimSpace(line.group)
    IN IF line.kind # "other" /\ downloadedFile = ""
       THEN IF group = <<>> THEN "" ELSE group[1]
       ELSE downloadedFile

\* One pass of the scanner loop over a line: downloadedFile afterwards,
\* strings.TrimSpace of the capture group when a pattern matches.
CaptureLine(downloadedFile, line) ==
    LET group == TrimSpace(line.group)
    IN IF line.kind # "other"
       THEN IF group = <<>> THEN "" ELSE group[1]
       ELSE downloadedFile

\* scanner.Scan() returns a line.
ScanLine(line) ==
    /\ scan.state = "scan"
    /\ Len(scan.stdout) < MaxStdout
    /\ scan' = [scan EXCEPT !.stdout = Append(@, line),
                            !.downloadedFile = CaptureLine(@, line)]
    /\ UNCHANGED <<cfgVars, oldFiles, failed, r2Vars, dials, disk, cleaned, outputDir,
                   lpc, sweeps, limiterVars, histVars, stopVars, dispVars,
                   ctxDone, mpc, handlerVars, mem, repo, workerVars,
                   localFiles>>

\* cmd.Wait() returns nil: Download resolves the path and returns.  info:
\* the metadata the JSON lines left; globbed: the first match of the glob,
\* "" for none; statOk: os.Stat finds the file.
ScanReturn(info, globbed, statOk) ==
    /\ scan.state = "scan"
    /\ LET file == ResolveDownloadedFile(scan.downloadedFile, info, globbed)
       IN scan' = [scan EXCEPT
                     !.state = "done", !.info = info, !.globbed = globbed,
                     !.path = IF file # "" /\ statOk THEN file ELSE "",
                     !.err = IF file = ""
                             THEN "could not determine downloaded file path"
                             ELSE IF ~statOk THEN "downloaded file not found"
                             ELSE ""]
    /\ UNCHANGED <<cfgVars, oldFiles, failed, r2Vars, dials, disk, cleaned, outputDir,
                   lpc, sweeps, limiterVars, histVars, stopVars, dispVars,
                   ctxDone, mpc, handlerVars, mem, repo, workerVars,
                   localFiles>>

NextPath ==
    \/ \E line \in StdoutLines : ScanLine(line)
    \/ \E info \in VideoInfos, globbed \in {"", "tmp/g"}, statOk \in BOOLEAN :
          ScanReturn(info, globbed, statOk)

\* One run of the extractor in the chi program.
InitPath == InitPlain /\ wiring = "router"

SpecPath == InitPath /\ [][NextPath]_vars

\* ------------------------------------------------------------- scheduling
\* A step of the goroutine of worker w: its select, or the processor call
\* it is in.  An extractor run ends: it fails, its deadline expiry
\* included, or leaves its artifact at the captured path.
WorkerStep(w) ==
    \/ WorkerReceive(w)
    \/ WorkerChanClosed(w)
    \/ WorkerCtxDone(w)
    \/ WorkerStopSignal(w)
    \/ ProcessBegin(w)
    \/ DownloadStart(w)
    \/ DownloadComplete(w)
    \/ \E e \in CtxErrs : DownloadFail(w, e, {})
    \/ ResolvePath(w, "tmp/f", CHOOSE i \in VideoInfos : i.title # "", "",
                   TRUE)
    \/ \E ok \in BOOLEAN : UploadArtifact(w, ok)
    \/ \E ok \in BOOLEAN : Presign(w, ok)

\* A step of main after the signal, up to the return of its deferred
\* dispatcher.Stop().
MainStep ==
    \/ ServerShutdown
    \/ SweepersStop
    \/ StopSwap(0)
    \/ StopCloseStopCh(0)
    \/ StopCloseJobChan(0)
    \/ StopWait(0)

\* The handlers and main with every goroutine of a worker scheduled again
\* and again, and main going on once it was signalled.
NextLive ==
    \/ Admission(1..MaxJobs)
    \/ \E w \in Workers : WorkerStep(w)

SpecLive ==
    /\ Init
    /\ [][NextLive]_vars
    /\ \A w \in Workers : WF_vars(WorkerStep(w))
    /\ WF_vars(MainStep)

\* ----------------------------------------------- the sweep and the workers
\* The modification time of the artifact of job j is now before the
\* threshold: time has passed since the extractor wrote the file, or the
\* extractor has set the time of the file to one in the past.
ExpireFile(j) ==
    /\ j \in localFiles \ oldFiles
    /\ oldFiles' = oldFiles \cup {j}
    /\ UNCHANGED <<cfgVars, scan, failed, r2Vars, dials, disk, cleaned,
                   outputDir, lpc, sweeps, limiterVars, histVars, stopVars,
                   dispVars, ctxDone, mpc, handlerVars, mem, repo,
                   workerVars, localFiles>>

\* The workers at their jobs while the local sweep runs.
NextKeep ==
    \/ NextLive
    \/ \E j \in JobIds : ExpireFile(j)
    \/ LocalSweepStart
    \/ LocalSweepTick

SpecKeep == Init /\ [][NextKeep]_vars


\* ------------------------------------------------------------- properties
Terminal(status) == status \in {JobStatusDone, JobStatusError}

\* The requests whose Enqueue call has returned, by what it returned.
EnqueueReturned(res) == {r \in JobIds : enqResult[r] = res}

\* The jobs a worker is executing.
Executing == {wjob[w] : w \in {v \in Workers : wjob[v] # 0}}

\* No worker has received a job and Stop has not begun.
NothingDequeued ==
    /\ EnqueueReturned("ok") \subseteq Queued
    /\ EnqueueReturned("stopped") = {} /\ EnqueueReturned("panic") = {}

\* C1: Enqueue never blocks: a call at its select always has a step to take,
\* and as long as no job was dequeued, of the calls that have returned
\* exactly min(calls, capacity) succeeded and all the others returned
\* queue-full; so of N > C calls exactly C succeed and N - C fail.
EnqueueNeverBlocks ==
    /\ \A r \in JobIds : (Alive /\ hpc[r] = "send") => ENABLED EnqueueSend(r)
    /\ NothingDequeued =>
         LET n == Cardinality(EnqueueReturned("ok"))
                  + Cardinality(EnqueueReturned("full"))
         IN /\ Cardinality(EnqueueReturned("ok")) = Min(n, queueCap)
            /\ Cardinality(EnqueueReturned("full")) = n - Min(n, queueCap)

\* More calls than the capacity have returned, none was dequeued.
EnqueueOverflowReached ==
    /\ NothingDequeued
    /\ Cardinality(EnqueueReturned("ok")) = queueCap
    /\ Cardinality(EnqueueReturned("full")) >= 1

QueueAndWorkersBounded ==
    /\ [](Len(jobChan) <= queueCap /\ Cardinality(Executing) <= numWorkers)
    /\ [][\A r \in JobIds :
            /\ (hpc[r] = "check" /\ hpc'[r] # "check" /\ IsFull)
                  => resp'[r] = StatusServiceUnavailable
            /\ (hpc[r] = "send" /\ hpc'[r] # "send" /\ ~IsFull /\ ~jobChanClosed)
                  => resp'[r] = StatusAccepted]_vars

\* workers = 1, queue = 1: the first two submits were answered 202, the third
\* 503 while one job executes and one is queued.
QueueFullScenario ==
    /\ numWorkers = 1 /\ queueCap = 1
    /\ resp[1] = StatusAccepted /\ resp[2] = StatusAccepted
    /\ resp[3] = StatusServiceUnavailable
    /\ Executing = {1} /\ jobChan = <<2>>

\* The job objects and rows that exist, and the status view of each row.
JobViews ==
    {mem[j] : j \in {k \in JobIds : mem[k].status # "none"}}
    \cup {repo[j] : j \in {k \in JobIds : repo[k].status # "none"}}
    \cup {StatusHandler(j) : j \in {k \in JobIds : repo[k].status # "none"}}

\* C4: exactly-one-terminal: once a job object or a job row has status Done
\* or Error, no step changes that status.
TerminalStatusIsFinal ==
    [][\A j \in JobIds :
         /\ Terminal(mem[j].status) => mem'[j].status = mem[j].status
         /\ Terminal(repo[j].status) => repo'[j].status = repo[j].status]_vars

\* A job lost the enqueue race and is Error in the repository, and a worker
\* has since taken another job through ProcessJob to its terminal state.
TerminalThenLaterSteps ==
    \E j, k \in JobIds :
        /\ j # k
        /\ repo[j].status = JobStatusError /\ enqResult[j] = "full"
        /\ Terminal(repo[k].status) /\ enqResult[k] = "ok"

\* C5: every job that is Done has progress 100, a download URL, no error and
\* a completion time, in object-store mode and in local mode.
DoneJobComplete ==
    \A v \in JobViews :
        v.status = JobStatusDone =>
            /\ v.progress = 100
            /\ v.downloadURL # ""
            /\ v.error = ""
            /\ v.completedAt

\* A job is Done in the repository after upload and presigning.
DoneAfterUpload ==
    \E j \in JobIds :
        /\ r2Configured
        /\ repo[j].status = JobStatusDone
        /\ repo[j].fileKey # ""

\* C6: every job that is Error has an error text and a completion time and
\* no download URL.
ErrorJobComplete ==
    \A v \in JobViews :
        v.status = JobStatusError =>
            /\ v.error # ""
            /\ v.completedAt
            /\ v.downloadURL = ""

\* Jobs are Error in the repository after a failed upload and after a failed
\* enqueue.
ErrorAfterUploadAndEnqueue ==
    \E j, k \in JobIds :
        /\ repo[j].status = JobStatusError
        /\ repo[j].error = "failed to upload file"
        /\ repo[k].status = JobStatusError
        /\ repo[k].error = "failed to enqueue job"

FieldsOnlyInTheirStatus ==
    \A v \in JobViews :
        /\ v.downloadURL # "" => v.status = JobStatusDone
        /\ v.error # "" => v.status = JobStatusError
        /\ v.completedAt => Terminal(v.status)

\* One job is Processing with progress written while another is Done.
ProcessingBesideDone ==
    \E j, k \in JobIds :
        /\ repo[j].status = JobStatusProcessing /\ repo[j].progress > 0
        /\ repo[k].status = JobStatusDone

\* The status changes a job may make.
StatusStep(from, to) ==
    \/ from = to
    \/ from = "none" /\ to = JobStatusPending
    \/ from = JobStatusPending /\ to \in {JobStatusProcessing, JobStatusError}
    \/ from = JobStatusProcessing /\ to \in {JobStatusDone, JobStatusError}

\* C9: the status of a job, as a poller reads it and in memory, goes Pending,
\* Processing, then Done or Error: Done only from Processing, Error only from
\* Pending or Processing, never back.
StatusSequence ==
    [][\A j \in JobIds :
         /\ StatusStep(repo[j].status, repo'[j].status)
         /\ StatusStep(mem[j].status, mem'[j].status)
         /\ StatusHandler(j).code = StatusOK =>
               StatusStep(StatusHandler(j).status, StatusHandler(j).status')]_vars

\* In local mode a poller reads Done for a job that a worker took from the
\* queue.
PolledDoneLocal ==
    \E j \in JobIds :
        /\ ~r2Configured
        /\ StatusHandler(j).code = StatusOK
        /\ StatusHandler(j).status = JobStatusDone
        /\ StatusHandler(j).downloadURL = repo[j].filePath

\* C10: while a worker executes a job, the job's progress never decreases,
\* in memory and in the repository.
ProgressMonotonic ==
    [][\A w \in Workers :
         (wjob[w] # 0 /\ wjob'[w] = wjob[w]) =>
            /\ mem'[wjob[w]].progress >= mem[wjob[w]].progress
            /\ repo'[wjob[w]].progress >= repo[wjob[w]].progress]_vars

\* C11: no new enqueues after stop: an Enqueue whose check of the stopped
\* flag runs after Stop has set it returns the dispatcher-stopped error, and
\* no Enqueue, however it interleaves with Stop, sends on the closed queue:
\* every call returns success, queue-full or stopped.
NoEnqueueAfterStop ==
    [][\A r \in JobIds :
         /\ (stopped /\ hpc[r] = "load" /\ hpc'[r] # "load")
               => enqResult'[r] = "stopped"
         /\ (hpc[r] = "send" /\ hpc'[r] # "send")
               => enqResult'[r] \in {"ok", "full", "stopped"}]_vars

\* The workers that have not returned from Dispatcher.worker.
WorkersRunning == {w \in Workers : wpc[w] \notin {"returned", "absent"}}

\* C12: Stop is idempotent: however many calls of Stop run, one after the
\* other or at once, neither channel is closed twice (no call panics); the
\* call that found the flag unset returns only after both channels are closed
\* and every worker has returned; a call that finds the flag set returns
\* at once and changes nothing.
StopIdempotent ==
    /\ [](\A c \in StopCallers :
            /\ spc[c] # "panic"
            /\ spc[c] = "returned" =>
                  /\ stopped /\ stopChClosed /\ jobChanClosed
                  /\ WorkersRunning = {})
    /\ [](Cardinality({c \in StopCallers :
                         spc[c] \notin {"idle", "swap", "returnedEarly"}}) <= 1)
    /\ [][\A c \in StopCallers :
            (stopped /\ spc[c] = "swap" /\ spc'[c] # "swap") =>
                /\ spc'[c] = "returnedEarly"
                /\ UNCHANGED <<dispVars, workerVars, handlerVars, mem, repo>>]_vars

\* Three calls of Stop have returned, one of them after joining the workers,
\* one of which was executing a job when the flag was set.
StopCalledThrice ==
    /\ Cardinality({c \in StopCallers : spc[c] = "returnedEarly"}) >= 2
    /\ \E c \in StopCallers : spc[c] = "returned"
    /\ \E j \in JobIds : Terminal(repo[j].status) /\ enqResult[j] = "ok"

\* C13: once the process context is cancelled the dispatcher accepts no job
\* that no worker will pick up: no submit is answered 202 after the
\* cancellation when every worker has already returned.
NoAcceptAfterCancel ==
    [][\A r \in JobIds :
         (ctxDone /\ WorkersRunning = {} /\ resp[r] # StatusAccepted)
            => resp'[r] # StatusAccepted]_vars

\* The steps of main's shutdown that have happened.
ServerDrained == mpc \notin {"running", "shutdown"}
DispatcherStopped == spc[0] \in {"returned", "returnedEarly"}

\* C14: shutdown runs in the order signal, context cancelled, server
\* drained, dispatcher stopped with the workers joined, sweeper closed,
\* repository closed: each step has happened only if the one before it has.
ShutdownOrder ==
    /\ mpc # "running" => ctxDone
    /\ stopped => ServerDrained
    /\ cleanerStopped => DispatcherStopped /\ WorkersRunning = {}
    /\ repoClosed => cleanerStopped /\ WorkersRunning = {}

\* C14 as amended: the order is signal, context cancelled, server drained,
\* sweeper closed, dispatcher stopped with the workers joined, repository
\* closed.
ShutdownOrderAsDeferred ==
    /\ mpc # "running" => ctxDone
    /\ cleanerStopped => ServerDrained
    /\ stopped => cleanerStopped
    /\ DispatcherStopped => stopChClosed /\ jobChanClosed /\ WorkersRunning = {}
    /\ repoClosed => DispatcherStopped /\ WorkersRunning = {}

\* The repository is closed after a worker that was executing a job when the
\* signal came has finished it.
ClosedAfterWorkersJoined ==
    /\ repoClosed
    /\ \E j \in JobIds : mem[j].error = "download was canceled"

\* C15: the queue is FIFO: a job whose Enqueue succeeds goes behind every
\* job queued before it, and a worker is handed the job that was queued
\* first, so the jobs are handed over in the order their Enqueue calls
\* succeeded, for every number of workers and interleaving of producers.
QueueIsFIFO ==
    [][jobChan' # jobChan =>
         \/ \E r \in JobIds :
               /\ enqResult[r] # "ok" /\ enqResult'[r] = "ok"
               /\ jobChan' = Append(jobChan, r)
               /\ UNCHANGED wjob
         \/ \E w \in Workers :
               /\ wjob[w] = 0 /\ wjob'[w] = Head(jobChan)
               /\ jobChan' = Tail(jobChan)
               /\ \A v \in Workers \ {w} : wjob'[v] = wjob[v]]_vars

\* Two producers' sends succeeded in the opposite order of their arrival and
\* a worker was handed the job that was sent first.
OvertakenAndHanded ==
    /\ jobChan = <<1>>
    /\ handed[2] = 1 /\ handed[1] = 0

\* C16: exactly one worker owns a job at a time: no job is handed to a
\* worker twice, no two workers execute the same job, no job is sent to the
\* queue twice, and a job that ended in Error is not in the queue again.
OneWorkerOwnsJob ==
    /\ \A j \in JobIds : handed[j] <= 1 /\ sent[j] <= 1 /\ handed[j] <= sent[j]
    /\ \A v, w \in Workers : (wjob[v] # 0 /\ wjob[v] = wjob[w]) => v = w
    /\ \A i, k \in 1..Len(jobChan) : jobChan[i] = jobChan[k] => i = k
    /\ \A j \in JobIds : Terminal(mem[j].status) => j \notin Queued

\* Two workers execute different jobs after a worker finished one in Error.
TwoOwnersAfterFailure ==
    /\ \E v, w \in Workers : wjob[v] # 0 /\ wjob[w] # 0 /\ v # w
    /\ \E j \in JobIds : mem[j].status = JobStatusError /\ enqResult[j] = "ok"

\* C17: the admission steps of a submit run in the order rate limit,
\* challenge, body parse, URL validation, repository insert, dispatcher
\* admit, and a request rejected at one step triggers none of the later
\* ones: a rate-limited request has caused no call of the verification
\* endpoint and no job record, and a request that failed the challenge, the
\* body parse or the URL validation has no job record and was not enqueued.
RejectedStopsChain ==
    \A r \in JobIds :
       /\ resp[r] = StatusTooManyRequests =>
             /\ verdict[r] = ""
             /\ mem[r] = NoJob /\ repo[r] = NoJob /\ sent[r] = 0
       /\ respCode[r] \in {"TURNSTILE_MISSING", "TURNSTILE_INVALID",
                           "TURNSTILE_ERROR", "INVALID_BODY", "INVALID_JSON",
                           "INVALID_URL"} =>
             mem[r] = NoJob /\ repo[r] = NoJob /\ sent[r] = 0

\* The requests i..k of the log that passed the limiter.
PassedIn(i, k) == {n \in i..k : limiterLog[n].status # StatusTooManyRequests}

\* C18: of the requests one IP sends within one minute the limiter admits
\* at most RequestsPerMinute + Burst; with 5 per minute and a burst of 2, of
\* 10 requests within 10 seconds exactly the first 2 pass and the other 8
\* are answered 429 with Retry-After: 60.
LimiterAdmitsRatePlusBurst ==
    /\ \A i, k \in 1..Len(limiterLog) :
          (i <= k /\ limiterLog[k].at - limiterLog[i].at <= SecondsPerMinute)
             => Cardinality(PassedIn(i, k)) <= rateRPM + rateBurst
    /\ (/\ rateRPM = 5 /\ rateBurst = 2
        /\ Len(limiterLog) >= 10
        /\ limiterLog[10].at - limiterLog[1].at <= 10)
          => /\ PassedIn(1, 10) = {1, 2}
             /\ \A n \in 3..10 :
                   /\ limiterLog[n].status = StatusTooManyRequests
                   /\ limiterLog[n].retry = 60

\* Ten requests of one IP within ten seconds, the last ones after a wait,
\* against the default limiter; two of them passed.
TenSubmitsInTenSeconds ==
    /\ rateRPM = 5 /\ rateBurst = 2
    /\ Len(limiterLog) = 10
    /\ limiterLog[10].at - limiterLog[1].at = 10
    /\ limiterLog[8].at = limiterLog[1].at
    /\ Cardinality(PassedIn(1, 10)) = 2

\* The requests that arrived before r from r's IP on r's route.
EarlierOnRoute(r) ==
    {p \in JobIds : p < r /\ req[p].ip = req[r].ip
                          /\ req[p].route = req[r].route}

\* C19: submits and status polls are limited by two separate limiters: a
\* submit is answered 429 only when earlier submits of its IP have used up
\* the submit budget, whatever the status polls of that IP, and a status
\* poll is answered 429 only after earlier status polls of its IP.
SeparateLimiters ==
    \A r \in JobIds :
       resp[r] = StatusTooManyRequests =>
          IF req[r].route = "download"
          THEN Cardinality(EarlierOnRoute(r)) >= rateBurst
          ELSE EarlierOnRoute(r) # {}

\* The submit handler was invoked for request r.
HandlerInvoked(r) ==
    /\ req[r].route = "download"
    /\ \/ hpc[r] \in {"simple", "check", "create", "load", "send", "failed"}
       \/ /\ hpc[r] = "done"
          /\ respCode[r] \notin {"RATE_LIMIT", "TURNSTILE_MISSING",
                                 "TURNSTILE_INVALID", "TURNSTILE_ERROR"}

\* C20: the challenge middleware answers a submit without a token 400
\* TURNSTILE_MISSING, one the provider judged success = false 403
\* TURNSTILE_INVALID and one whose verification call failed in transport or
\* in parsing 500 TURNSTILE_ERROR; the submit handler is invoked only after
\* a verdict success = true or with the skip flag.
ChallengeFailuresDistinguished ==
    \A r \in JobIds :
       /\ (/\ ~turnstileSkip /\ req[r].route = "download"
           /\ req[r].token = "" /\ resp[r] # StatusTooManyRequests)
             => resp[r] = StatusBadRequest /\ respCode[r] = "TURNSTILE_MISSING"
       /\ verdict[r] = "failure"
             => resp[r] = StatusForbidden /\ respCode[r] = "TURNSTILE_INVALID"
       /\ verdict[r] \in {"transport error", "parse error"}
             => /\ resp[r] = StatusInternalServerError
                /\ respCode[r] = "TURNSTILE_ERROR"
       /\ HandlerInvoked(r) => turnstileSkip \/ verdict[r] = "success"

\* ----------------------------------------------------------- URL validation
\* The handler has decoded the url of request r's body.
Decoded(r) == hpc[r] # "none" /\ req[r].body # <<>>

\* Request r was answered INVALID_URL and no job exists for it.
RejectedAsInvalid(r) ==
    /\ resp[r] = StatusBadRequest /\ respCode[r] = "INVALID_URL"
    /\ mem[r].status = "none" /\ repo[r].status = "none"

\* The host is a member of the list, or its last two labels form a member.
HostInAllowlist(host, list) ==
    \/ host \in list
    \/ \E i \in 1..Len(host) :
          /\ host[i] = "." /\ Count(After(host, i), ".") = 1
          /\ After(host, i) \in list

\* The url has scheme http or https, no userinfo and an allowed host.
WellFormed(url) ==
    LET u == ParseURL(TrimSpace(url))
    IN /\ ~u.err
       /\ u.scheme \in {<<"http">>, <<"https">>}
       /\ ~u.user
       /\ HostInAllowlist(ToLower(Hostname(u.host)),
                          IF wiring = "router" THEN allowedDomains
                          ELSE simpleAllowedDomains)

\* C21: a URL that validation accepts has scheme http or https, no userinfo
\* and a lowercased host that is in the allowlist (itself or its last two
\* labels); every other URL is answered INVALID_URL and creates no job.
ValidationContract ==
    \A r \in JobIds :
       Decoded(r) => WellFormed(req[r].body) \/ RejectedAsInvalid(r)

\* The url holds none of the suspicious characters.
Clean(url) == \A i \in 1..Len(url) : url[i] \notin Suspicious

\* The urls that were put into the argument vector of a started yt-dlp: by
\* a worker of the chi program, by Handler.Download of the simple wiring.
Extracted ==
    {mem[wjob[w]].url : w \in {v \in Workers : wpc[v] = "scan"}}
    \cup {req[r].body : r \in {q \in JobIds :
             /\ wiring = "simple" /\ hpc[q] = "done" /\ req[q].body # <<>>
             /\ respCode[q] \in {"", "DOWNLOAD_ERROR", "UPLOAD_ERROR"}}}

\* C22: validation rejects every URL that holds one of ; & | $ ` \, so no
\* such URL is stored in a job or passed to the extractor.
SuspiciousUrlsRejected ==
    /\ \A r \in JobIds :
          /\ Decoded(r) /\ ~Clean(req[r].body) => RejectedAsInvalid(r)
          /\ Clean(mem[r].url) /\ Clean(repo[r].url)
    /\ \A url \in Extracted : Clean(url)

\* C23: normalization is idempotent: the url of a job, which is the
\* normalized url of its request, is normalized to itself.
NormalizeIdempotent ==
    \A r \in JobIds :
       mem[r].status # "none" =>
          /\ mem[r].url = NormalizeURL(req[r].body)
          /\ NormalizeURL(mem[r].url) = mem[r].url

\* --------------------------------------------------------- outbound dials
\* The forbidden ranges as listed: RFC 1918, loopback, link-local,
\* multicast, broadcast, carrier-grade NAT, 0/8, the documentation ranges,
\* ::1, ::, fc00::/7, fe80::/10, ff00::/8.
ListedRanges ==
    {IPNet(<<10, 0, 0, 0>>, 8), IPNet(<<172, 16, 0, 0>>, 12),
     IPNet(<<192, 168, 0, 0>>, 16), IPNet(<<127, 0, 0, 0>>, 8),
     IPNet(<<169, 254, 0, 0>>, 16), IPNet(<<224, 0, 0, 0>>, 4),
     IPNet(<<255, 255, 255, 255>>, 32), IPNet(<<100, 64, 0, 0>>, 10),
     IPNet(<<0, 0, 0, 0>>, 8), IPNet(<<192, 0, 2, 0>>, 24),
     IPNet(<<198, 51, 100, 0>>, 24), IPNet(<<203, 0, 113, 0>>, 24),
     IPNet(V6(32, 1, 13, 184, 0), 32),
     IPNet(V6(0, 0, 0, 0, 1), 128), IPNet(Zeros(16), 128),
     IPNet(V6(252, 0, 0, 0, 0), 7), IPNet(V6(254, 128, 0, 0, 0), 10),
     IPNet(V6(255, 0, 0, 0, 0), 8)}

\* The site-local range fec0::/10.
SiteLocal == IPNet(V6(254, 192, 0, 0, 0), 10)

\* The address, or the IPv4 address embedded in it, lies in one of the ranges.
InRanges(addr, ranges) == \E network \in ranges : Contains(network, addr)

\* The addresses named as rejected.
NamedForbidden ==
    {<<127, 0, 0, 1>>, <<10, 1, 2, 3>>, <<169, 254, 169, 254>>,
     V6(0, 0, 0, 0, 1), V6(252, 0, 0, 0, 1)}

\* The dials through the safe dialer are rejected exactly in the ranges.
RejectsExactly(ranges) ==
    \A d \in dials :
       d.client = "safe" =>
          /\ d.result = IF InRanges(d.ip, ranges) THEN "forbidden IP"
                        ELSE "connected"
          /\ d.ip \in NamedForbidden => d.result = "forbidden IP"

\* C24: the safe dialer rejects with the forbidden-IP error every resolved
\* IP in a listed range, an IPv4-mapped address of a forbidden IPv4 address
\* included, and admits every IP outside the listed ranges.
SafeDialerRejectsListed == RejectsExactly(ListedRanges)

\* C24, amended: the same with the site-local range fec0::/10 in the list.
SafeDialerRejectsForbidden == RejectsExactly(ListedRanges \cup {SiteLocal})

\* The safe dialer has refused a mapped loopback address and a named
\* address and has connected to a public one.
MappedRefusedPublicAdmitted ==
    /\ wiring = "router"
    /\ \E d \in dials : d.ip = Mapped(<<127, 0, 0, 1>>)
                        /\ d.result = "forbidden IP"
    /\ \E d \in dials : d.ip = <<8, 8, 8, 8>> /\ d.result = "connected"

\* C25: every outbound connection, to the challenge verifier and to the
\* object store, redirect hops included, is dialled through the safe
\* dialer, so none is established to a forbidden IP.
AllDialsThroughSafeDialer ==
    \A d \in dials :
       /\ d.client = "safe"
       /\ d.result = "connected" =>
             ~InRanges(d.ip, ListedRanges \cup {SiteLocal})

\* ------------------------------------------------------- path confinement
\* The absolute path lies inside the directory.
Inside(abs, dir) == abs = dir \/ HasPrefix(abs, dir \o <<"/">>)

\* C26: Cleanup removes a file only when its absolute path lies inside the
\* output directory; for every other path, one in a sibling directory whose
\* name begins with the output directory's name included, it returns an
\* error and removes nothing.
CleanupConfined ==
    cleaned.path # <<>> =>
       IF Inside(Abs(cleaned.path), Abs(TempDir))
       THEN cleaned.removed => cleaned.error = ""
       ELSE ~cleaned.removed /\ cleaned.error # ""

\* -------------------------------------------------------------- retention
\* C27: the local sweep runs once at startup, before any wait, and at every
\* tick; after each run no regular file of the output directory is older
\* than the maximum age, except a file whose own lstat or removal failed.
LocalSweepLeavesNoOldFile ==
    [][/\ lpc = "start" /\ lpc' # "start" => sweeps' = sweeps + 1
       /\ sweeps' # sweeps =>
             \A i \in 1..Len(outputDir') :
                outputDir'[i].kind = "file" /\ outputDir'[i].old
                   => outputDir'[i].fault # "none"]_vars

\* C28: each object-store sweep deletes every object of the bucket whose
\* last-modified time is older than the maximum age, whatever the number of
\* objects in the bucket, and the count it returns is the number of objects
\* deleted; an object whose own deletion failed and a run whose listing
\* failed are left aside.
R2SweepLeavesNoOldObject ==
    [][r2Log' # r2Log =>
          LET ret == r2Log'[Len(r2Log')]
          IN /\ ret.count = Len(bucket) - Len(bucket')
             /\ ret.error = "" =>
                   \A i \in 1..Len(bucket') :
                      bucket'[i].old => bucket'[i].fault # "none"]_vars

\* ---------------------------------------------------------- classification
\* The class the precedence gives a failed run.
Precedence(ctxErr, stderr) ==
    IF ctxErr = "deadline" THEN "TIMEOUT"
    ELSE IF ctxErr = "canceled" THEN "CANCELED"
    ELSE IF "Video unavailable" \in stderr \/ "private" \in stderr
    THEN "VIDEO_UNAVAILABLE"
    ELSE IF "filesize" \in stderr THEN "SIZE_EXCEEDED"
    ELSE IF "duration<" \in stderr /\ "skipping" \in stderr
    THEN "DURATION_EXCEEDED"
    ELSE IF "is not a valid URL" \in stderr THEN "INVALID_URL"
    ELSE "DOWNLOAD_ERROR"

\* The class of a recorded error: of a message of Download, of a code.
ErrorClass(error) ==
    IF error = "download timed out" THEN "TIMEOUT"
    ELSE IF error = "download was canceled" THEN "CANCELED"
    ELSE IF error = "video is unavailable or private" THEN "VIDEO_UNAVAILABLE"
    ELSE IF error = "invalid video URL" THEN "INVALID_URL"
    ELSE IF error = "yt-dlp error" THEN "DOWNLOAD_ERROR"
    ELSE error

\* C29: when the extractor run fails, the recorded error has the class of
\* this precedence: deadline expiry TIMEOUT, cancellation CANCELED, stderr
\* with "Video unavailable" or "private" VIDEO_UNAVAILABLE, with "filesize"
\* SIZE_EXCEEDED, a duration-filter skip DURATION_EXCEEDED, stderr with
\* "is not a valid URL" INVALID_URL, anything else DOWNLOAD_ERROR.
FailureClassified ==
    failed # NoFailure =>
       ErrorClass(failed.error) = Precedence(failed.ctxErr, failed.stderr)

\* ------------------------------------------------------------ immutability
\* C30: a job's url and created_at are immutable after creation: no step
\* of the job processor and no update of the repository changes either, in
\* the job object or in the row.
JobUrlAndCreatedAtImmutable ==
    [][\A j \in JobIds :
          /\ mem[j].status # "none" =>
                /\ mem'[j].url = mem[j].url
                /\ mem'[j].createdAt = mem[j].createdAt
          /\ repo[j].status # "none" =>
                /\ repo'[j].url = repo[j].url
                /\ repo'[j].createdAt = repo[j].createdAt]_vars

\* A job has been processed to the end, its progress written on the way,
\* and has the URL and the creation time it was made with.
ProcessedJobKeepsUrl ==
    \E j \in JobIds :
       /\ repo[j].status = JobStatusDone /\ mem[j].status = JobStatusDone
       /\ repo[j].progress = 100
       /\ repo[j].url = NormalizeURL(GoodURL) /\ repo[j].url # <<>>
       /\ mem[j].url = repo[j].url
       /\ repo[j].createdAt /\ mem[j].createdAt

\* ------------------------------------------------------------ termination
\* The stop signal, the cancelled context or the closed queue.
Signalled == stopChClosed \/ ctxDone \/ jobChanClosed

\* Every worker ends once signalled, and Stop returns.
WorkersEnd ==
    /\ \A w \in Workers :
          Signalled ~> wpc[w] \in {"returned", "absent"}
    /\ spc[0] = "swap" ~> spc[0] \in {"returned", "returnedEarly"}

\* C31: every worker eventually terminates after the stop signal, the
\* cancellation of the process context or the closing of the queue; once
\* one of them has happened a worker at its select, idle or back from its
\* processor call, returns and receives no further job; so Stop always
\* completes when processor calls terminate.
WorkersReturnAtSignal ==
    /\ [][\A w \in Workers :
            Signalled /\ wpc[w] = "idle" => wpc'[w] \in {"idle", "returned"}]_vars
    /\ WorkersEnd

\* C32: in the absence of shutdown every job admitted with 202 is
\* eventually picked by a worker and ends, in the repository, in Done or
\* Error; a job whose extractor run exceeds its deadline is in Error with
\* the timeout text and does not stay in Processing.
AdmittedJobsFinish ==
    /\ \A j \in JobIds :
          resp[j] = StatusAccepted ~>
             ctxDone \/ (handed[j] > 0 /\ Terminal(repo[j].status))
    /\ [](\A j \in JobIds :
            mem[j].error = "download timed out" =>
               mem[j].status = JobStatusError)

\* Without a shutdown an admitted job has ended with the timeout error.
TimedOutJobInError ==
    \E j \in JobIds :
       /\ ~ctxDone /\ resp[j] = StatusAccepted
       /\ repo[j].status = JobStatusError
       /\ repo[j].error = "download timed out"

\* ---------------------------------------------------------------- artifact
\* C33: a job's artifact path is non-empty only while the job is being
\* processed: it is empty in every state after the artifact was uploaded
\* and in every Error state.
ArtifactPathOnlyWhileProcessing ==
    \A j \in JobIds : \A v \in {mem[j], repo[j]} :
       /\ v.status = JobStatusError => v.filePath = ""
       /\ v.fileKey # "" => v.filePath = ""

\* The job is with a worker that has not passed the upload.
BeforeUpload(j) ==
    \/ mem[j].status = JobStatusPending
    \/ \E w \in Workers :
          wjob[w] = j /\ wpc[w] \in {"start", "download", "scan", "resolve",
                                     "upload"}

\* C34: with the object store, the artifact key is empty before the upload
\* has succeeded, a failed upload leaves the job in Error without a
\* download URL, and a Done job has the key job id "/" title, the presigned
\* URL as download URL and no local artifact; without it a Done job has
\* the local file path as download URL and no upload was attempted.
UploadDecidesKeyAndUrl ==
    \A j \in JobIds : \A v \in {mem[j], repo[j]} :
       IF r2Configured
       THEN /\ BeforeUpload(j) => v.fileKey = ""
            /\ v.error = "failed to upload file" =>
                  v.status = JobStatusError /\ v.downloadURL = ""
            /\ v.status = JobStatusDone =>
                  /\ v.fileKey = ToString(j) \o "/" \o v.title
                  /\ v.downloadURL = "https://r2/" \o v.fileKey
                  /\ j \notin localFiles
       ELSE /\ v.fileKey = ""
            /\ v.status = JobStatusDone =>
                  v.downloadURL = v.filePath /\ v.filePath # ""

\* One job is Done after its upload, with a title in its key, another
\* is in Error after its upload failed.
UploadedAndFailedUpload ==
    /\ r2Configured
    /\ \E j \in JobIds :
          repo[j].status = JobStatusDone /\ repo[j].title # ""
          /\ repo[j].fileKey # ""
    /\ \E j \in JobIds : repo[j].error = "failed to upload file"

\* C35: the stored error of a job that fails with the generic class
\* contains at most 200 characters of the stderr of the extractor, for
\* stderr of any length.
GenericErrorTruncated ==
    failed.error \in {"yt-dlp error", "DOWNLOAD_ERROR"} =>
       Count(failed.text, "x") <= 200

\* ---------------------------------------------------------------- progress
\* C36: after every progress callback whose write the repository accepts,
\* the progress of the row equals the progress of the job object and lies
\* in 0..100, for every percentage parsed from the output, those above 100
\* included.
PersistedProgressClamped ==
    [][\A w \in Workers :
          /\ \/ nlines'[w] = nlines[w] + 1
             \/ wpc[w] = "scan" /\ wpc'[w] = "resolve"
          /\ ~ctxDone /\ repo[wjob[w]].status # "none"
          => /\ repo'[wjob[w]].progress = mem'[wjob[w]].progress
             /\ repo'[wjob[w]].progress \in 0..100]_vars

\* C37: progress writes are throttled: once the callback has issued a write
\* for the job of a worker, no further progress line read while the clock
\* still shows the same second issues another one.
ProgressWritesThrottled ==
    [][\A w \in Workers :
          nlines[w] >= 1 /\ now' = now /\ nlines'[w] = nlines[w] + 1
          => repo' = repo]_vars

\* ------------------------------------------------------------ the artifact
\* The lines of stdout a destination pattern matches.
Matching == {i \in 1..Len(scan.stdout) : scan.stdout[i].kind # "other"}

\* C38: the path a successful run returns is the one of the last matching
\* line of stdout; with no matching line it is the output directory joined
\* with the metadata filename, else the match of the glob; a run for which
\* all three fail ends with the could-not-determine-path error.
ArtifactPathFromLastMatch ==
    scan.state = "done" =>
       LET last == CHOOSE i \in Matching : \A k \in Matching : k <= i
           named == scan.info.present /\ scan.info.filename # ""
       IN /\ scan.err = "" =>
                scan.path =
                   IF Matching # {}
                   THEN TrimSpace(scan.stdout[last].group)[1]
                   ELSE IF named THEN OutputDir \o scan.info.filename
                   ELSE scan.globbed
          /\ Matching = {} /\ ~named /\ scan.globbed = ""
                => scan.err = "could not determine downloaded file path"

\* A successful run whose stdout had two destination lines naming
\* different paths.
LaterLineOverwrote ==
    /\ scan.state = "done" /\ scan.err = ""
    /\ \E i, k \in Matching :
          i < k /\ TrimSpace(scan.stdout[i].group) # TrimSpace(scan.stdout[k].group)

\* -------------------------------------------------- the limiter's cleanup
\* The first n requests of the log served by a limiter whose entries are
\* never removed: its entries and the number of requests it admits.
RECURSIVE NeverRemoved(_)
NeverRemoved(n) ==
    IF n = 0 THEN [visitors |-> UsedUp, admitted |-> 0]
    ELSE LET p == NeverRemoved(n - 1)
             a == Allow(p.visitors, 1, limiterLog[n].at)
         IN [visitors |-> a.visitors,
             admitted |-> p.admitted + IF a.ok THEN 1 ELSE 0]

\* C39: with the cleanup running, the requests of one IP that the limiter
\* admits are no more than a limiter that never removes the entry of the
\* IP admits of the same requests.
CleanupNeverWeakensLimit ==
    Cardinality({i \in 1..Len(limiterLog) : limiterLog[i].status = StatusOK})
       <= NeverRemoved(Len(limiterLog)).admitted

\* ------------------------------------------------- the sweep and the jobs
\* C40: the local sweep removes no artifact of a job that is still
\* Processing: while a worker uploads the artifact of its job or signs its
\* URL, the file is on the local disk.
SweepKeepsProcessingArtifact ==
    \A w \in Workers :
       wpc[w] \in {"upload", "presign"} /\ mem[wjob[w]].status = JobStatusProcessing
          => wjob[w] \in localFiles

====
